---- MODULE Spec2Model ----
(***************************************************************************)
(* Move assessment and adaptive difficulty of the chess instructor         *)
(* (src/instructor.py): the grading core, the constraint analysis, the     *)
(* threat labelling, the explanation assembly of assess_move and the       *)
(* module-level adaptive counters.                                         *)
(***************************************************************************)
EXTENDS Integers, Sequences, FiniteSets, TLC

(***************************************************************************)
(* Core types (instructor.py 11-28)                                        *)
(***************************************************************************)
BLUNDER == 1
MISTAKE == 2
INACCURACY == 3
GOOD == 4
EXCELLENT == 5
BEST == 6

MoveGrade == {BLUNDER, MISTAKE, INACCURACY, GOOD, EXCELLENT, BEST}

MATE_THRESHOLD == 50000

\* Python's None, for each kind of value that may be absent
None == "None"
NoPiece == [type |-> "None"]
NoMove == [from_square |-> -1, to_square |-> -1]
NoBoard == [absent |-> TRUE]
NoGrade == 0
NoSquare == -1

(***************************************************************************)
(* Bounds of the model                                                     *)
(***************************************************************************)
\* every grading band edge is sampled with this many integers on each side
Near == 1
\* assess_move calls recorded (and allowed) between two resets
MaxHist == 6
\* legal moves of a position before the move (the move played is one of them)
MaxLegal == 2
\* assess_move calls made by the games of one process
MaxGameMoves == 4
\* legal moves of a position whose alternatives the oracle re-evaluates
MaxOracleMoves == 7
\* the errors, and the good moves of a streak, the counters are followed to
MaxCount == 6

(***************************************************************************)
(* Core helpers (instructor.py 47-83)                                      *)
(***************************************************************************)
Max(a, b) == IF a >= b THEN a ELSE b

\* faulty variant: the colour of the mover is ignored
_calculate_centipawn_loss_white_only(eval_initial, eval_final, is_white) ==
    eval_initial - eval_final

\* faulty variant: the size of the swing, whichever way it went
_calculate_centipawn_loss_abs(eval_initial, eval_final, is_white) ==
    IF eval_initial >= eval_final THEN eval_initial - eval_final
    ELSE eval_final - eval_initial

_calculate_centipawn_loss(eval_initial, eval_final, is_white) ==
    IF is_white THEN eval_initial - eval_final ELSE eval_final - eval_initial

_to_player_eval(cp, is_white) == IF is_white THEN cp ELSE 0 - cp

\* faulty variant: the mate-level test runs ahead of the recommendation test
_determine_grade_mate_first(cp_loss, was_best) ==
    LET loss == Max(0, cp_loss) IN
    IF loss >= MATE_THRESHOLD THEN BLUNDER
    ELSE IF was_best THEN BEST
    ELSE IF loss <= 10 THEN EXCELLENT
    ELSE IF loss <= 25 THEN GOOD
    ELSE IF loss <= 50 THEN INACCURACY
    ELSE IF loss <= 100 THEN MISTAKE
    ELSE BLUNDER

\* faulty variant: the grades of the second and third band exchanged
_determine_grade_bands_swapped(cp_loss, was_best) ==
    IF was_best THEN BEST
    ELSE LET loss == Max(0, cp_loss) IN
         IF loss >= MATE_THRESHOLD THEN BLUNDER
         ELSE IF loss <= 10 THEN EXCELLENT
         ELSE IF loss <= 25 THEN INACCURACY
         ELSE IF loss <= 50 THEN GOOD
         ELSE IF loss <= 100 THEN MISTAKE
         ELSE BLUNDER

_determine_grade(cp_loss, was_best) ==
    IF was_best THEN BEST
    ELSE LET loss == Max(0, cp_loss) IN
         IF loss >= MATE_THRESHOLD THEN BLUNDER
         ELSE IF loss <= 10 THEN EXCELLENT
         ELSE IF loss <= 25 THEN GOOD
         ELSE IF loss <= 50 THEN INACCURACY
         ELSE IF loss <= 100 THEN MISTAKE
         ELSE BLUNDER

\* faulty variant: one fixed sentence whatever the grade, as the predecessor
\* of the module had it (instructor_no_tact_analysis.py 327)
_generate_fallback_explanation_fixed(grade, cp_loss, has_best) ==
    "This move caused a significant evaluation drop."

_generate_fallback_explanation(grade, cp_loss, has_best) ==
    IF grade = BEST THEN "This was the best move."
    ELSE IF grade = EXCELLENT THEN "Excellent move."
    ELSE IF grade = GOOD THEN "A solid move."
    ELSE IF grade = INACCURACY THEN "A small inaccuracy."
    ELSE IF grade = MISTAKE THEN "This move weakened your position."
    ELSE "This move seriously weakened your position."

(***************************************************************************)
(* The rules engine's answers (python-chess, consumed through its query    *)
(* surface).  A board is a piece placement on a BoardSize x BoardSize grid *)
(* with the side to move, its legal moves and, for each legal move, the    *)
(* board after it (push); attacks are computed from the placement as       *)
(* chess.Board.attacks does.                                               *)
(***************************************************************************)
BoardSize == 4

WHITE == TRUE
BLACK == FALSE

PAWN == "Pawn"
KNIGHT == "Knight"
BISHOP == "Bishop"
ROOK == "Rook"
QUEEN == "Queen"
KING == "King"

\* chess.SQUARES, in scanning order
SQUARES == 0 .. (BoardSize * BoardSize - 1)

square_file(sq) == sq % BoardSize
square_rank(sq) == sq \div BoardSize
square(f, r) == r * BoardSize + f
OnBoard(f, r) == f >= 0 /\ f < BoardSize /\ r >= 0 /\ r < BoardSize

\* PIECE_VALUES.get(piece_type, 0)
PIECE_VALUES(pt) ==
    CASE pt = PAWN -> 100
      [] pt = KNIGHT -> 300
      [] pt = BISHOP -> 300
      [] pt = ROOK -> 500
      [] pt = QUEEN -> 900
      [] OTHER -> 0

\* the piece a placement has on a square; a placement lists the occupied squares
PieceOn(pl, sq) == IF sq \in DOMAIN pl THEN pl[sq] ELSE NoPiece

piece_at(b, sq) == PieceOn(b.piece, sq)

RookDirs == {<<1, 0>>, <<-1, 0>>, <<0, 1>>, <<0, -1>>}
BishopDirs == {<<1, 1>>, <<1, -1>>, <<-1, 1>>, <<-1, -1>>}
KnightJumps == {<<1, 2>>, <<2, 1>>, <<-1, 2>>, <<-2, 1>>,
                <<1, -2>>, <<2, -1>>, <<-1, -2>>, <<-2, -1>>}

\* the squares a slider on sq reaches in direction d on the placement pl: up
\* to and including the first occupied square
SlideOn(pl, sq, d) ==
    {t \in SQUARES : \E k \in 1 .. (BoardSize - 1) :
        /\ OnBoard(square_file(sq) + k * d[1], square_rank(sq) + k * d[2])
        /\ t = square(square_file(sq) + k * d[1], square_rank(sq) + k * d[2])
        /\ \A j \in 1 .. (k - 1) :
              PieceOn(pl, square(square_file(sq) + j * d[1],
                                 square_rank(sq) + j * d[2])) = NoPiece}

Slide(b, sq, d) == SlideOn(b.piece, sq, d)

Step(sq, ds) ==
    {t \in SQUARES : \E d \in ds :
        /\ OnBoard(square_file(sq) + d[1], square_rank(sq) + d[2])
        /\ t = square(square_file(sq) + d[1], square_rank(sq) + d[2])}

\* the squares attacked by the piece on sq of the placement pl
AttackSet(pl, sq) ==
    LET p == PieceOn(pl, sq) IN
    IF p = NoPiece THEN {}
    ELSE CASE p.type = ROOK -> UNION {SlideOn(pl, sq, d) : d \in RookDirs}
           [] p.type = BISHOP -> UNION {SlideOn(pl, sq, d) : d \in BishopDirs}
           [] p.type = QUEEN ->
                UNION {SlideOn(pl, sq, d) : d \in RookDirs \cup BishopDirs}
           [] p.type = KNIGHT -> Step(sq, KnightJumps)
           [] p.type = KING -> Step(sq, RookDirs \cup BishopDirs)
           [] p.type = PAWN ->
                IF p.color = WHITE THEN Step(sq, {<<1, 1>>, <<-1, 1>>})
                ELSE Step(sq, {<<1, -1>>, <<-1, -1>>})

\* board.attacks(sq): the squares attacked by the piece on sq, as the board
\* answers it
attacks(b, sq) == IF sq \in DOMAIN b.attacks THEN b.attacks[sq] ELSE {}

\* board.attackers(color, sq): squares of color's pieces attacking sq
attackers(b, color, sq) ==
    {s \in SQUARES : piece_at(b, s) # NoPiece /\ piece_at(b, s).color = color
                     /\ sq \in attacks(b, s)}

is_attacked_by(b, color, sq) == attackers(b, color, sq) # {}

\* board.pieces(piece_type, color)
pieces(b, pt, color) ==
    {s \in SQUARES : piece_at(b, s) # NoPiece /\ piece_at(b, s).type = pt
                     /\ piece_at(b, s).color = color}

\* board.king(color): the king's square, or None (NoSquare)
king(b, color) ==
    IF pieces(b, KING, color) = {} THEN NoSquare
    ELSE CHOOSE s \in pieces(b, KING, color) :
            \A t \in pieces(b, KING, color) : s <= t

\* list(board.legal_moves)
legal_moves(b) == DOMAIN b.next

\* board.push(mv): the board after a legal move
push(b, mv) == b.next[mv]

is_checkmate(b) == b.checkmate

\* whether two distinct squares share a rank, a file or a diagonal
Aligned(a, b) ==
    /\ a # b
    /\ \/ square_file(a) = square_file(b)
       \/ square_rank(a) = square_rank(b)
       \/ square_file(a) - square_file(b) = square_rank(a) - square_rank(b)
       \/ square_file(a) - square_file(b) = square_rank(b) - square_rank(a)

Sign(n) == IF n > 0 THEN 1 ELSE IF n < 0 THEN -1 ELSE 0

\* the unit step that leads from a towards b
Direction(a, b) ==
    <<Sign(square_file(b) - square_file(a)), Sign(square_rank(b) - square_rank(a))>>

\* chess.ray(a, b): the whole line through two aligned squares, else empty
ray(a, b) ==
    IF ~Aligned(a, b) THEN {}
    ELSE {t \in SQUARES : t = a \/ t = b
            \/ (Aligned(a, t) /\ Aligned(b, t)
                /\ (Direction(a, t) = Direction(a, b)
                    \/ Direction(t, a) = Direction(a, b)))}

\* chess.between(a, b): the squares strictly between two aligned squares
between(a, b) ==
    IF ~Aligned(a, b) THEN {}
    ELSE {t \in SQUARES : /\ t # a /\ t # b
                          /\ Aligned(a, t) /\ Aligned(t, b)
                          /\ Direction(a, t) = Direction(a, b)
                          /\ Direction(t, b) = Direction(a, b)}

occupied(b) == {s \in SQUARES : piece_at(b, s) # NoPiece}

\* the opposing sliders that pin the piece on sq to color's king: aligned
\* with the king along a line they move on, with sq the only occupied
\* square in between (chess.Board.pin_mask)
Snipers(b, color, sq) ==
    LET k == king(b, color) IN
    IF k = NoSquare THEN {}
    ELSE {s \in SQUARES :
            /\ piece_at(b, s) # NoPiece
            /\ piece_at(b, s).color = ~color
            /\ Aligned(k, s)
            /\ IF square_file(k) = square_file(s) \/ square_rank(k) = square_rank(s)
               THEN piece_at(b, s).type \in {ROOK, QUEEN}
               ELSE piece_at(b, s).type \in {BISHOP, QUEEN}
            /\ between(s, k) \cap (occupied(b) \cup {sq}) = {sq}}

\* board.is_pinned(color, sq)
is_pinned(b, color, sq) == Snipers(b, color, sq) # {}

\* board.pin(color, sq): the pin ray, or every square when not pinned
pin(b, color, sq) ==
    IF Snipers(b, color, sq) = {} THEN SQUARES
    ELSE ray(king(b, color), CHOOSE s \in Snipers(b, color, sq) : TRUE)

(***************************************************************************)
(* Phase 2 -- tactical detectors on evaluations and material               *)
(* (instructor.py 90-122)                                                  *)
(***************************************************************************)
_detect_missed_mate(e0, e1, is_white) ==
    IF _to_player_eval(e0, is_white) >= MATE_THRESHOLD
       /\ _to_player_eval(e1, is_white) < MATE_THRESHOLD
    THEN "You missed a forced checkmate."
    ELSE None

_detect_allowed_mate(e0, e1, is_white) ==
    IF _to_player_eval(e0, is_white) > 0 - MATE_THRESHOLD
       /\ _to_player_eval(e1, is_white) <= 0 - MATE_THRESHOLD
    THEN "You allowed a forced checkmate."
    ELSE None

\* the least element of a non-empty set of squares: the first one the
\* code's scan over chess.SQUARES meets
FirstSquare(S) == CHOOSE s \in S : \A t \in S : s <= t

\* f"You left your {chess.piece_name(p.piece_type).capitalize()} undefended."
LeftUndefended(pt) ==
    CASE pt = PAWN -> "You left your Pawn undefended."
      [] pt = KNIGHT -> "You left your Knight undefended."
      [] pt = BISHOP -> "You left your Bishop undefended."
      [] pt = ROOK -> "You left your Rook undefended."
      [] pt = QUEEN -> "You left your Queen undefended."
      [] pt = KING -> "You left your King undefended."

_detect_hung_piece(before, after, color) ==
    LET opp == ~color
        hung == {sq \in SQUARES :
                    /\ piece_at(after, sq) # NoPiece
                    /\ piece_at(after, sq).color = color
                    /\ is_attacked_by(after, opp, sq)
                    /\ ~is_attacked_by(after, color, sq)
                    /\ ~is_attacked_by(before, opp, sq)}
    IN IF hung = {} THEN None
       ELSE LeftUndefended(piece_at(after, FirstSquare(hung)).type)

PieceTypesValued == {PAWN, KNIGHT, BISHOP, ROOK, QUEEN}

RECURSIVE SumValues(_, _, _)
SumValues(b, color, pts) ==
    IF pts = {} THEN 0
    ELSE LET pt == CHOOSE x \in pts : TRUE IN
         Cardinality(pieces(b, pt, color)) * PIECE_VALUES(pt)
           + SumValues(b, color, pts \ {pt})

_detect_material_loss(before, after, color) ==
    IF SumValues(before, color, PieceTypesValued)
         - SumValues(after, color, PieceTypesValued) >= 200
    THEN "You lost material on this move."
    ELSE None

(***************************************************************************)
(* Phase 3.1 -- threat labelling (instructor.py 129-143)                   *)
(***************************************************************************)
\* f"Your {chess.piece_name(pt).capitalize()} can be captured."
CanBeCaptured(pt) ==
    CASE pt = KNIGHT -> "Your Knight can be captured."
      [] pt = BISHOP -> "Your Bishop can be captured."
      [] pt = ROOK -> "Your Rook can be captured."
      [] pt = QUEEN -> "Your Queen can be captured."

\* the mover's pieces of one type that are attacked and not defended
Capturable(board, color, pt) ==
    {sq \in pieces(board, pt, color) :
        is_attacked_by(board, ~color, sq) /\ ~is_attacked_by(board, color, sq)}

\* faulty variant: a capturable queen is named ahead of the mate threat
_detect_threat_type_queen_first(board, color) ==
    LET opp == ~color IN
    IF Capturable(board, color, QUEEN) # {} THEN CanBeCaptured(QUEEN)
    ELSE IF board.turn = opp
            /\ \E mv \in legal_moves(board) : is_checkmate(push(board, mv))
    THEN "This move failed to stop a mate threat."
    ELSE IF Capturable(board, color, ROOK) # {} THEN CanBeCaptured(ROOK)
    ELSE IF Capturable(board, color, BISHOP) # {} THEN CanBeCaptured(BISHOP)
    ELSE IF Capturable(board, color, KNIGHT) # {} THEN CanBeCaptured(KNIGHT)
    ELSE None

_detect_threat_type(board, color) ==
    LET opp == ~color IN
    IF board.turn = opp
       /\ \E mv \in legal_moves(board) : is_checkmate(push(board, mv))
    THEN "This move failed to stop a mate threat."
    ELSE IF Capturable(board, color, QUEEN) # {} THEN CanBeCaptured(QUEEN)
    ELSE IF Capturable(board, color, ROOK) # {} THEN CanBeCaptured(ROOK)
    ELSE IF Capturable(board, color, BISHOP) # {} THEN CanBeCaptured(BISHOP)
    ELSE IF Capturable(board, color, KNIGHT) # {} THEN CanBeCaptured(KNIGHT)
    ELSE None

(***************************************************************************)
(* Phase 3 -- constraint analysis (instructor.py 150-195)                  *)
(***************************************************************************)
_opponent_can_mate_in_one(board) ==
    \E mv \in legal_moves(board) : is_checkmate(push(board, mv))

_get_moves_avoiding_immediate_mate(board) ==
    {mv \in legal_moves(board) : ~_opponent_can_mate_in_one(push(board, mv))}

\* faulty variant: the lost-position tests run ahead of the only-legal-move test
analyze_constraints_lost_first(board_before, move, e0, e1, is_white) ==
    LET pe0 == _to_player_eval(e0, is_white)
        pe1 == _to_player_eval(e1, is_white)
        legal == legal_moves(board_before)
        safe == _get_moves_avoiding_immediate_mate(board_before)
    IN IF pe0 <= 0 - MATE_THRESHOLD
       THEN <<"Checkmate was unavoidable.", NoGrade, FALSE>>
       ELSE IF pe0 <= -800
       THEN <<"The position was already lost.", NoGrade, FALSE>>
       ELSE IF Cardinality(legal) = 1
       THEN <<"This was the only legal move.", BEST, FALSE>>
       ELSE IF Cardinality(safe) = 1 /\ move \in safe
       THEN <<"This was the only move to avoid checkmate.", BEST, FALSE>>
       ELSE IF Cardinality(safe) = 0
       THEN <<"No move could prevent checkmate.", NoGrade, FALSE>>
       ELSE IF pe0 >= -100 /\ pe1 <= -300
       THEN <<"This move failed to address the threat.", NoGrade, TRUE>>
       ELSE <<None, NoGrade, FALSE>>

\* returns <<explanation, grade override, threat_failure>>
\* as analyze_constraints, with the lookahead for safe moves ahead of the
\* two evaluation tests
analyze_constraints_safe_first(board_before, move, e0, e1, is_white) ==
    LET pe0 == _to_player_eval(e0, is_white)
        pe1 == _to_player_eval(e1, is_white)
        legal == legal_moves(board_before)
        safe == _get_moves_avoiding_immediate_mate(board_before)
    IN IF Cardinality(legal) = 1
       THEN <<"This was the only legal move.", BEST, FALSE>>
       ELSE IF Cardinality(safe) = 1 /\ move \in safe
       THEN <<"This was the only move to avoid checkmate.", BEST, FALSE>>
       ELSE IF Cardinality(safe) = 0
       THEN <<"No move could prevent checkmate.", NoGrade, FALSE>>
       ELSE IF pe0 <= 0 - MATE_THRESHOLD
       THEN <<"Checkmate was unavoidable.", NoGrade, FALSE>>
       ELSE IF pe0 <= -800
       THEN <<"The position was already lost.", NoGrade, FALSE>>
       ELSE IF pe0 >= -100 /\ pe1 <= -300
       THEN <<"This move failed to address the threat.", NoGrade, TRUE>>
       ELSE <<None, NoGrade, FALSE>>

\* as analyze_constraints, without the test that the move played is the
\* safe one
analyze_constraints_any_safe(board_before, move, e0, e1, is_white) ==
    LET pe0 == _to_player_eval(e0, is_white)
        pe1 == _to_player_eval(e1, is_white)
        legal == legal_moves(board_before)
        safe == _get_moves_avoiding_immediate_mate(board_before)
    IN IF Cardinality(legal) = 1
       THEN <<"This was the only legal move.", BEST, FALSE>>
       ELSE IF pe0 <= 0 - MATE_THRESHOLD
       THEN <<"Checkmate was unavoidable.", NoGrade, FALSE>>
       ELSE IF pe0 <= -800
       THEN <<"The position was already lost.", NoGrade, FALSE>>
       ELSE IF Cardinality(safe) = 1
       THEN <<"This was the only move to avoid checkmate.", BEST, FALSE>>
       ELSE IF Cardinality(safe) = 0
       THEN <<"No move could prevent checkmate.", NoGrade, FALSE>>
       ELSE IF pe0 >= -100 /\ pe1 <= -300
       THEN <<"This move failed to address the threat.", NoGrade, TRUE>>
       ELSE <<None, NoGrade, FALSE>>

analyze_constraints(board_before, move, e0, e1, is_white) ==
    LET pe0 == _to_player_eval(e0, is_white)
        pe1 == _to_player_eval(e1, is_white)
        legal == legal_moves(board_before)
        safe == _get_moves_avoiding_immediate_mate(board_before)
    IN IF Cardinality(legal) = 1
       THEN <<"This was the only legal move.", BEST, FALSE>>
       ELSE IF pe0 <= 0 - MATE_THRESHOLD
       THEN <<"Checkmate was unavoidable.", NoGrade, FALSE>>
       ELSE IF pe0 <= -800
       THEN <<"The position was already lost.", NoGrade, FALSE>>
       ELSE IF Cardinality(safe) = 1 /\ move \in safe
       THEN <<"This was the only move to avoid checkmate.", BEST, FALSE>>
       ELSE IF Cardinality(safe) = 0
       THEN <<"No move could prevent checkmate.", NoGrade, FALSE>>
       ELSE IF pe0 >= -100 /\ pe1 <= -300
       THEN <<"This move failed to address the threat.", NoGrade, TRUE>>
       ELSE <<None, NoGrade, FALSE>>

(***************************************************************************)
(* Phase 5 -- tactical pattern attribution (instructor.py 377-773)         *)
(***************************************************************************)
_is_winning_capture(board, attacker_sq, target_sq) ==
    LET attacker == piece_at(board, attacker_sq)
        target == piece_at(board, target_sq)
    IN IF attacker = NoPiece \/ target = NoPiece THEN FALSE
       ELSE LET defenders_excluding_target ==
                    attackers(board, target.color, target_sq) \ {target_sq}
            IN IF defenders_excluding_target = {} THEN TRUE
               ELSE PIECE_VALUES(target.type) > PIECE_VALUES(attacker.type)

_count_fork_targets(board, attacker_sq, victim_color) ==
    IF piece_at(board, attacker_sq) = NoPiece THEN 0
    ELSE Cardinality({sq \in attacks(board, attacker_sq) :
            /\ piece_at(board, sq) # NoPiece
            /\ piece_at(board, sq).color = victim_color
            /\ PIECE_VALUES(piece_at(board, sq).type) >= 300
            /\ _is_winning_capture(board, attacker_sq, sq)})

\* as _detect_new_fork, without the look at the board before the move
_detect_new_fork_any(board_before, board_after, player_color) ==
    LET opp == ~player_color IN
    IF \E sq \in SQUARES :
          /\ piece_at(board_after, sq) # NoPiece
          /\ piece_at(board_after, sq).color = opp
          /\ _count_fork_targets(board_after, sq, player_color) >= 2
    THEN "This move allowed a fork."
    ELSE None

_detect_new_fork(board_before, board_after, player_color) ==
    LET opp == ~player_color IN
    IF \E sq \in SQUARES :
          /\ piece_at(board_after, sq) # NoPiece
          /\ piece_at(board_after, sq).color = opp
          /\ _count_fork_targets(board_after, sq, player_color) >= 2
          /\ ~(/\ piece_at(board_before, sq) # NoPiece
               /\ piece_at(board_before, sq).color = opp
               /\ _count_fork_targets(board_before, sq, player_color) >= 2)
    THEN "This move allowed a fork."
    ELSE None

_detect_new_pin(board_before, board_after, player_color, move_played) ==
    LET opp == ~player_color IN
    IF \E sq \in SQUARES :
          /\ piece_at(board_after, sq) # NoPiece
          /\ piece_at(board_after, sq).color = player_color
          /\ piece_at(board_after, sq).type # KING
          /\ is_pinned(board_after, player_color, sq)
          /\ king(board_after, player_color) # NoSquare
          /\ pin(board_after, player_color, sq) # {}
          /\ \E potential_pinner \in pin(board_after, player_color, sq) :
                /\ piece_at(board_after, potential_pinner) # NoPiece
                /\ piece_at(board_after, potential_pinner).color = opp
                /\ piece_at(board_after, potential_pinner).type
                      \in {ROOK, BISHOP, QUEEN}
          /\ ~(/\ piece_at(board_before, sq) # NoPiece
               /\ piece_at(board_before, sq).color = player_color
               /\ is_pinned(board_before, player_color, sq))
          /\ PIECE_VALUES(piece_at(board_after, sq).type) >= 300
          /\ \/ is_attacked_by(board_after, opp, sq)
             \/ \E defended_sq \in attacks(board_after, sq) :
                   /\ piece_at(board_after, defended_sq) # NoPiece
                   /\ piece_at(board_after, defended_sq).color = player_color
                   /\ is_attacked_by(board_after, opp, defended_sq)
    THEN "This move allowed a pin."
    ELSE None

_detect_skewer(board_after, player_color) ==
    LET opp == ~player_color IN
    IF \E sq \in SQUARES :
          /\ piece_at(board_after, sq) # NoPiece
          /\ piece_at(board_after, sq).color = opp
          /\ piece_at(board_after, sq).type \in {ROOK, BISHOP, QUEEN}
          /\ \E target_sq \in attacks(board_after, sq) :
                /\ piece_at(board_after, target_sq) # NoPiece
                /\ piece_at(board_after, target_sq).color = player_color
                /\ PIECE_VALUES(piece_at(board_after, target_sq).type) >= 500
                /\ target_sq # sq
                \* the first piece behind the target on the attack line
                /\ \E behind_sq \in Slide(board_after, target_sq,
                                          Direction(sq, target_sq)) :
                      /\ piece_at(board_after, behind_sq) # NoPiece
                      /\ piece_at(board_after, behind_sq).color = player_color
                      /\ PIECE_VALUES(piece_at(board_after, behind_sq).type) > 0
                      /\ PIECE_VALUES(piece_at(board_after, behind_sq).type)
                           < PIECE_VALUES(piece_at(board_after, target_sq).type)
    THEN "This move allowed a skewer."
    ELSE None

_detect_discovered_attack(board_before, board_after, player_color, move_played) ==
    LET opp == ~player_color
        moved_from == move_played.from_square
    IN IF piece_at(board_before, moved_from) = NoPiece THEN None
       ELSE IF piece_at(board_before, moved_from).color # player_color THEN None
       ELSE IF \E opp_sq \in SQUARES :
          /\ piece_at(board_after, opp_sq) # NoPiece
          /\ piece_at(board_after, opp_sq).color = opp
          /\ piece_at(board_after, opp_sq).type \in {ROOK, BISHOP, QUEEN}
          /\ piece_at(board_before, opp_sq) # NoPiece
          /\ piece_at(board_before, opp_sq).color = opp
          /\ piece_at(board_before, opp_sq).type = piece_at(board_after, opp_sq).type
          /\ moved_from \notin attacks(board_before, opp_sq)
          /\ \E target_sq \in attacks(board_after, opp_sq)
                                \ attacks(board_before, opp_sq) :
                /\ piece_at(board_after, target_sq) # NoPiece
                /\ piece_at(board_after, target_sq).color = player_color
                /\ PIECE_VALUES(piece_at(board_after, target_sq).type) >= 300
                /\ moved_from \in ray(opp_sq, target_sq)
       THEN "This move allowed a discovered attack."
       ELSE None

_detect_back_rank_weakness(board_after, player_color) ==
    LET opp == ~player_color
        king_sq == king(board_after, player_color)
        back_rank == IF player_color = WHITE THEN 0 ELSE BoardSize - 1
        second_rank == IF player_color = WHITE THEN 1 ELSE BoardSize - 2
    IN IF king_sq = NoSquare THEN None
       ELSE IF square_rank(king_sq) # back_rank THEN None
       ELSE LET king_file == square_file(king_sq)
                checked == {f \in {king_file - 1, king_file, king_file + 1} :
                               f >= 0 /\ f <= BoardSize - 1}
                blocked == {f \in checked :
                    /\ piece_at(board_after, square(f, second_rank)) # NoPiece
                    /\ piece_at(board_after, square(f, second_rank)).color
                         = player_color}
            IN IF Cardinality(checked) = 0
                  \/ Cardinality(blocked) < Cardinality(checked)
               THEN None
               ELSE IF \E opp_sq \in SQUARES :
                         /\ piece_at(board_after, opp_sq) # NoPiece
                         /\ piece_at(board_after, opp_sq).color = opp
                         /\ piece_at(board_after, opp_sq).type \in {ROOK, QUEEN}
                         /\ \E f \in 0 .. (BoardSize - 1) :
                               square(f, back_rank) \in attacks(board_after, opp_sq)
               THEN "This move exposed a back rank weakness."
               ELSE None

_detect_new_hanging_piece(board_before, board_after, player_color) ==
    LET opp == ~player_color IN
    IF \E sq \in SQUARES :
          /\ piece_at(board_after, sq) # NoPiece
          /\ piece_at(board_after, sq).color = player_color
          /\ piece_at(board_after, sq).type # KING
          /\ PIECE_VALUES(piece_at(board_after, sq).type) >= 300
          /\ is_attacked_by(board_after, opp, sq)
          /\ ~is_attacked_by(board_after, player_color, sq)
          /\ ~(/\ piece_at(board_before, sq) # NoPiece
               /\ piece_at(board_before, sq).color = player_color
               /\ is_attacked_by(board_before, opp, sq)
               /\ ~is_attacked_by(board_before, player_color, sq))
    THEN "This move left a piece hanging."
    ELSE None

_detect_overloaded_defender(board_before, board_after, player_color, move_played) ==
    LET opp == ~player_color
        moved_to == move_played.to_square
    IN IF piece_at(board_after, moved_to) = NoPiece THEN None
       ELSE IF piece_at(board_after, moved_to).color # player_color THEN None
       ELSE IF \E sq \in SQUARES \ {moved_to} :
          /\ piece_at(board_after, sq) # NoPiece
          /\ piece_at(board_after, sq).color = player_color
          /\ is_attacked_by(board_after, opp, sq)
          /\ attackers(board_before, player_color, sq) # {}
          /\ \E defender_sq \in attackers(board_before, player_color, sq)
                                  \ attackers(board_after, player_color, sq) :
                /\ piece_at(board_before, defender_sq) # NoPiece
                /\ piece_at(board_before, defender_sq).color = player_color
                /\ piece_at(board_after, defender_sq) # NoPiece
                /\ piece_at(board_after, defender_sq).color = player_color
                /\ Cardinality({potential_sq \in attacks(board_before, defender_sq) :
                      /\ piece_at(board_before, potential_sq) # NoPiece
                      /\ piece_at(board_before, potential_sq).color = player_color
                      /\ is_attacked_by(board_before, opp, potential_sq)}) >= 2
                /\ moved_to \in attacks(board_after, defender_sq)
       THEN "This move overloaded a defender."
       ELSE None

_detect_new_mate_threat(board_after, player_color) ==
    IF board_after.turn # ~player_color THEN None
    ELSE IF \E mv \in legal_moves(board_after) :
               is_checkmate(push(board_after, mv))
    THEN "This move allowed a mate threat."
    ELSE None

\* the first result that is not None, in the order of the sequence
RECURSIVE FirstResult(_)
FirstResult(rs) ==
    IF rs = <<>> THEN None
    ELSE IF Head(rs) # None THEN Head(rs)
    ELSE FirstResult(Tail(rs))

detect_tactical_pattern(board_before, board_after, player_color, move_played, threat_already_detected) ==
    FirstResult(<<
        IF ~threat_already_detected
        THEN _detect_new_mate_threat(board_after, player_color) ELSE None,
        _detect_new_fork(board_before, board_after, player_color),
        _detect_new_pin(board_before, board_after, player_color, move_played),
        _detect_skewer(board_after, player_color),
        _detect_discovered_attack(board_before, board_after, player_color, move_played),
        _detect_back_rank_weakness(board_after, player_color),
        _detect_new_hanging_piece(board_before, board_after, player_color),
        _detect_overloaded_defender(board_before, board_after, player_color, move_played)>>)

(***************************************************************************)
(* Adaptive difficulty counters (instructor.py 288-314)                    *)
(***************************************************************************)
(***************************************************************************)
(* The constraint analysis with oracle lookahead                           *)
(* (instructor_no_tact_analysis.py 188-300).  legal is the list            *)
(* list(board_before.legal_moves), oracle[mv] what engine.analyze returns  *)
(* for the board after mv: a White-relative score or an exception, and     *)
(* safe the moves _get_moves_avoiding_immediate_mate returns.  Each        *)
(* operator returns its value together with the engine.analyze calls made. *)
(***************************************************************************)
\* what engine.analyze does: raise, or return a result with a score
OracleError == [raised |-> TRUE, cp_score_white |-> 0]
Score(cp) == [raised |-> FALSE, cp_score_white |-> cp]

\* the loop of _all_moves_lose from the i-th legal move on
RECURSIVE AllMovesLoseFrom(_, _, _, _, _)
AllMovesLoseFrom(legal, i, checked, is_white, oracle) ==
    IF i > Len(legal) \/ checked >= 3 THEN <<TRUE, checked>>
    ELSE IF oracle[legal[i]] = OracleError THEN <<FALSE, checked + 1>>
    ELSE IF _to_player_eval(oracle[legal[i]].cp_score_white, is_white) > -800
    THEN <<FALSE, checked + 1>>
    ELSE AllMovesLoseFrom(legal, i + 1, checked + 1, is_white, oracle)

_all_moves_lose(legal, is_white, engine, oracle) ==
    IF ~engine THEN <<FALSE, 0>>
    ELSE AllMovesLoseFrom(legal, 1, 0, is_white, oracle)

\* faulty variant: an alternative whose evaluation raised is not counted
_get_viable_alternatives_error_skipped(legal, move_played, played_eval, is_white, oracle) ==
    IF Len(legal) > 6 THEN <<2, 0>>
    ELSE <<Cardinality({i \in 1 .. Len(legal) :
                \/ legal[i] = move_played
                \/ /\ oracle[legal[i]] # OracleError
                   /\ _to_player_eval(oracle[legal[i]].cp_score_white, is_white)
                        >= played_eval - 200}),
           Cardinality({i \in 1 .. Len(legal) : legal[i] # move_played})>>

_get_viable_alternatives(legal, move_played, played_eval, is_white, oracle) ==
    IF Len(legal) > 6 THEN <<2, 0>>
    ELSE <<Cardinality({i \in 1 .. Len(legal) :
                \/ legal[i] = move_played
                \/ oracle[legal[i]] = OracleError
                \/ /\ oracle[legal[i]] # OracleError
                   /\ _to_player_eval(oracle[legal[i]].cp_score_white, is_white)
                        >= played_eval - 200}),
           Cardinality({i \in 1 .. Len(legal) : legal[i] # move_played})>>

\* the loop of _saving_move_exists from the i-th legal move on
RECURSIVE SavingMoveFrom(_, _, _, _, _, _)
SavingMoveFrom(legal, i, checked, move_played, is_white, oracle) ==
    IF i > Len(legal) THEN <<FALSE, checked>>
    ELSE IF legal[i] = move_played
    THEN SavingMoveFrom(legal, i + 1, checked, move_played, is_white, oracle)
    ELSE IF checked >= 3 THEN <<FALSE, checked>>
    ELSE IF /\ oracle[legal[i]] # OracleError
            /\ _to_player_eval(oracle[legal[i]].cp_score_white, is_white) >= -100
    THEN <<TRUE, checked + 1>>
    ELSE SavingMoveFrom(legal, i + 1, checked + 1, move_played, is_white, oracle)

_saving_move_exists(legal, move_played, is_white, oracle) ==
    SavingMoveFrom(legal, 1, 0, move_played, is_white, oracle)

\* lines 294-300, after n engine.analyze calls
IgnoredThreat(a, pe0, pe1, n) ==
    IF pe0 >= -100 /\ pe1 <= -300 /\ a.engine
    THEN LET s == _saving_move_exists(a.legal, a.move_played, a.is_white, a.oracle)
         IN <<IF s[1] THEN "This move failed to stop the threat." ELSE None,
              n + s[2]>>
    ELSE <<None, n>>

\* lines 286-292, after n engine.analyze calls
OnlyViable(a, pe0, pe1, n) ==
    IF a.engine /\ Len(a.legal) <= 6
    THEN LET v == _get_viable_alternatives(a.legal, a.move_played, pe1,
                                           a.is_white, a.oracle)
         IN IF v[1] = 1 THEN <<"This was the only move.", n + v[2]>>
            ELSE IgnoredThreat(a, pe0, pe1, n + v[2])
    ELSE IgnoredThreat(a, pe0, pe1, n)

\* lines 277-284, after n engine.analyze calls
OnlyMove(a, pe0, pe1, n) ==
    IF Len(a.legal) = 1 THEN <<"This was the only move.", n>>
    ELSE IF Cardinality(a.safe) = 1 /\ a.move_played \in a.safe
    THEN <<"This was the only move.", n>>
    ELSE OnlyViable(a, pe0, pe1, n)

\* lines 271-275
ForcedLoss(a, pe0, pe1) ==
    IF pe0 <= -800
    THEN LET l == _all_moves_lose(a.legal, a.is_white, a.engine, a.oracle)
         IN IF l[1] THEN <<"The position was already lost.", l[2]>>
            ELSE OnlyMove(a, pe0, pe1, l[2])
    ELSE OnlyMove(a, pe0, pe1, 0)

\* analyze_constraints of instructor_no_tact_analysis.py on the arguments a:
\* <<explanation, engine.analyze calls made>>
analyze_constraints_no_tact(a) ==
    ForcedLoss(a, _to_player_eval(a.eval_initial, a.is_white),
                  _to_player_eval(a.eval_final, a.is_white))

VARIABLES
    adaptive,   \* the module-level dict _adaptive: blunders, good_moves
    call,       \* the arguments of the last assess_move call
    result,     \* the MoveAssessment that call returned
    hist,       \* the grades fed to _update_adaptive_state since the last reset
    modes,      \* get_current_mode() as seen after each of them
    gin,        \* grading core alone: the inputs drawn
    gout,       \* grading core alone: the values computed from them
    games       \* the games played in the process, as their callers see them

vars == <<adaptive, call, result, hist, modes, gin, gout, games>>

NoCall == [made |-> FALSE]
NoResult == [returned |-> FALSE]

\* faulty variant: a BLUNDER counts as two errors
_update_adaptive_state_blunder_twice(a, grade) ==
    IF grade \in {BLUNDER, MISTAKE}
    THEN [blunders |-> a.blunders + (IF grade = BLUNDER THEN 2 ELSE 1),
          good_moves |-> 0]
    ELSE IF grade \in {GOOD, EXCELLENT, BEST}
    THEN [blunders |-> IF a.good_moves + 1 >= 3
                       THEN Max(0, a.blunders - 1) ELSE a.blunders,
          good_moves |-> a.good_moves + 1]
    ELSE a

\* faulty variant: a streak forgives once, when it reaches 3
_update_adaptive_state_once(a, grade) ==
    IF grade \in {BLUNDER, MISTAKE}
    THEN [blunders |-> a.blunders + 1, good_moves |-> 0]
    ELSE IF grade \in {GOOD, EXCELLENT, BEST}
    THEN [blunders |-> IF a.good_moves + 1 = 3
                       THEN Max(0, a.blunders - 1) ELSE a.blunders,
          good_moves |-> a.good_moves + 1]
    ELSE a

\* faulty variant: forgiveness starts one good move late
_update_adaptive_state_late(a, grade) ==
    IF grade \in {BLUNDER, MISTAKE}
    THEN [blunders |-> a.blunders + 1, good_moves |-> 0]
    ELSE IF grade \in {GOOD, EXCELLENT, BEST}
    THEN [blunders |-> IF a.good_moves + 1 > 3
                       THEN Max(0, a.blunders - 1) ELSE a.blunders,
          good_moves |-> a.good_moves + 1]
    ELSE a

_update_adaptive_state(a, grade) ==
    IF grade \in {BLUNDER, MISTAKE}
    THEN [blunders |-> a.blunders + 1, good_moves |-> 0]
    ELSE IF grade \in {GOOD, EXCELLENT, BEST}
    THEN [blunders |-> IF a.good_moves + 1 >= 3
                       THEN Max(0, a.blunders - 1) ELSE a.blunders,
          good_moves |-> a.good_moves + 1]
    ELSE a

reset_adaptive_state(a) == [blunders |-> 0, good_moves |-> 0]

\* faulty variant: a streak of three good moves restores the hard mode
get_current_mode_streak(a) ==
    LET b == a.blunders IN
    IF a.good_moves >= 3 THEN "hard"
    ELSE IF b >= 5 THEN "learning"
    ELSE IF b >= 3 THEN "easy"
    ELSE IF b >= 1 THEN "medium"
    ELSE "hard"

\* faulty variant: the easy mode starts at the second error
get_current_mode_easy_at_two(a) ==
    LET b == a.blunders IN
    IF b >= 5 THEN "learning"
    ELSE IF b >= 2 THEN "easy"
    ELSE IF b >= 1 THEN "medium"
    ELSE "hard"

get_current_mode(a) ==
    LET b == a.blunders IN
    IF b >= 5 THEN "learning"
    ELSE IF b >= 3 THEN "easy"
    ELSE IF b >= 1 THEN "medium"
    ELSE "hard"

(***************************************************************************)
(* Phase 4 -- pre-move advice (instructor.py 202-285, 317-370).  The board *)
(* handed in also carries null: the board after chess.Move.null().         *)
(***************************************************************************)
\* board.is_check(): the king of the side to move is attacked
is_check(b) ==
    king(b, b.turn) # NoSquare /\ is_attacked_by(b, ~b.turn, king(b, b.turn))

_has_mate_threat(board, color) ==
    IF board.turn # color THEN FALSE
    ELSE IF is_check(board) THEN FALSE
    ELSE \E mv \in legal_moves(board.null) : is_checkmate(push(board.null, mv))

_is_real_capture_threat(board, sq, color) ==
    IF piece_at(board, sq) = NoPiece THEN FALSE
    ELSE IF piece_at(board, sq).color # color THEN FALSE
    ELSE LET opp == ~color
             victim_value == PIECE_VALUES(piece_at(board, sq).type)
             is_defended == attackers(board, color, sq) # {}
         IN \E attacker_sq \in attackers(board, opp, sq) :
               /\ ~(/\ is_pinned(board, opp, attacker_sq)
                    /\ sq \notin pin(board, opp, attacker_sq))
               /\ \/ ~is_defended
                  \/ victim_value > PIECE_VALUES(piece_at(board, attacker_sq).type)

_get_threatened_piece_type(board, color) ==
    LET Threatened(pt) ==
            \E sq \in pieces(board, pt, color) :
                _is_real_capture_threat(board, sq, color)
    IN IF Threatened(QUEEN) THEN QUEEN
       ELSE IF Threatened(ROOK) THEN ROOK
       ELSE IF Threatened(BISHOP) THEN BISHOP
       ELSE IF Threatened(KNIGHT) THEN KNIGHT
       ELSE None

_king_safety_critical(board, color) ==
    IF is_check(board) THEN TRUE
    ELSE IF king(board, color) = NoSquare THEN FALSE
    ELSE Cardinality(attackers(board, ~color, king(board, color))) >= 2

_is_forced_position(board) == Cardinality(legal_moves(board)) <= 2

_resolve_mode(a, mode) == IF mode = "adaptive" THEN get_current_mode(a) ELSE mode

\* f"Your {chess.piece_name(threatened).capitalize()} is under threat."
UnderThreat(pt) ==
    CASE pt = KNIGHT -> "Your Knight is under threat."
      [] pt = BISHOP -> "Your Bishop is under threat."
      [] pt = ROOK -> "Your Rook is under threat."
      [] pt = QUEEN -> "Your Queen is under threat."

\* the hint in easy mode, lines 337-351
EasyHint(board, color) ==
    IF _has_mate_threat(board, color) THEN "A checkmate threat exists."
    ELSE IF _get_threatened_piece_type(board, color) \in {QUEEN, ROOK}
    THEN "A major piece may be in danger."
    ELSE IF _get_threatened_piece_type(board, color) \in {BISHOP, KNIGHT}
    THEN "A piece may be in danger."
    ELSE IF _king_safety_critical(board, color)
    THEN "Your King position may be unsafe."
    ELSE None

\* the hint in learning mode, lines 353-368
LearningHint(board, color) ==
    IF _has_mate_threat(board, color) THEN "Opponent threatens checkmate."
    ELSE IF _get_threatened_piece_type(board, color) # None
    THEN UnderThreat(_get_threatened_piece_type(board, color))
    ELSE IF _king_safety_critical(board, color) THEN "Your King may be vulnerable."
    ELSE IF _is_forced_position(board) THEN "You have very few options."
    ELSE None

\* as analyze_pre_move_threats, with the few-options hint given in easy
\* mode too
analyze_pre_move_threats_few_in_easy(a, board, color, mode) ==
    IF _resolve_mode(a, mode) = "hard"
    THEN IF _has_mate_threat(board, color) THEN "There is a forced threat."
         ELSE None
    ELSE IF _resolve_mode(a, mode) = "medium"
    THEN IF _has_mate_threat(board, color) THEN "This position is dangerous."
         ELSE None
    ELSE IF _resolve_mode(a, mode) = "easy"
    THEN IF EasyHint(board, color) # None THEN EasyHint(board, color)
         ELSE IF _is_forced_position(board) THEN "You have very few options."
         ELSE None
    ELSE IF _resolve_mode(a, mode) = "learning" THEN LearningHint(board, color)
    ELSE None

\* a is the module-level _adaptive that get_current_mode reads
analyze_pre_move_threats(a, board, color, mode) ==
    IF _resolve_mode(a, mode) = "hard"
    THEN IF _has_mate_threat(board, color) THEN "There is a forced threat."
         ELSE None
    ELSE IF _resolve_mode(a, mode) = "medium"
    THEN IF _has_mate_threat(board, color) THEN "This position is dangerous."
         ELSE None
    ELSE IF _resolve_mode(a, mode) = "easy" THEN EasyHint(board, color)
    ELSE IF _resolve_mode(a, mode) = "learning" THEN LearningHint(board, color)
    ELSE None

(***************************************************************************)
(* Public API: assess_move (instructor.py 780-851)                         *)
(***************************************************************************)
\* "mate" in explanation.lower(), over the explanations tested that way
ContainsMate(exp) ==
    exp \in {"This move failed to stop a mate threat.",
             "You missed a forced checkmate.",
             "You allowed a forced checkmate.",
             "You lost material on this move."}

\* x if x is not None, else y
OrElse(x, y) == IF x # None THEN x ELSE y

\* lines 800-808: <<explanation, grade override, threat_failure>>
ConstraintPhase(c) ==
    IF c.board_before # NoBoard
    THEN analyze_constraints(c.board_before, c.move_played, c.eval_initial,
                             c.eval_final, c.player_is_white)
    ELSE <<None, NoGrade, FALSE>>

\* lines 810-816: threat_exp
ThreatPhase(c, threat_failure) ==
    IF threat_failure /\ c.board_after # NoBoard
    THEN _detect_threat_type(c.board_after, c.player_is_white)
    ELSE None

\* lines 818-831: the first result r of the four detectors
DetectorPhase(c, explanation) ==
    IF explanation = None /\ c.board_before # NoBoard /\ c.board_after # NoBoard
    THEN FirstResult(<<
            _detect_missed_mate(c.eval_initial, c.eval_final, c.player_is_white),
            _detect_allowed_mate(c.eval_initial, c.eval_final, c.player_is_white),
            _detect_hung_piece(c.board_before, c.board_after, c.player_is_white),
            _detect_material_loss(c.board_before, c.board_after, c.player_is_white)>>)
    ELSE None

\* lines 833-841: pattern_exp
PatternPhase(c, explanation, constraint_found, grade, mate_threat_detected) ==
    IF explanation = None /\ ~constraint_found
       /\ c.board_before # NoBoard /\ c.board_after # NoBoard
       /\ grade \in {INACCURACY, MISTAKE, BLUNDER}
    THEN detect_tactical_pattern(c.board_before, c.board_after, c.player_is_white,
                                 c.move_played, mate_threat_detected)
    ELSE None

\* lines 843-851: the fallback explanation and the record returned
Assemble(c, was_best, cp_loss, grade, explanation) ==
    [move_played |-> c.move_played, grade |-> grade,
     eval_initial |-> c.eval_initial, eval_final |-> c.eval_final,
     centipawn_loss |-> cp_loss, best_move |-> c.best_move,
     was_best_move |-> was_best,
     explanation |->
        IF explanation = None
        THEN _generate_fallback_explanation(grade, cp_loss, c.best_move # NoMove)
        ELSE explanation]

AfterDetectors(c, was_best, cp_loss, grade, constraint_found, threat_exp, explanation, r) ==
    Assemble(c, was_best, cp_loss, grade,
        OrElse(PatternPhase(c, OrElse(r, explanation), constraint_found, grade,
                            \/ (threat_exp # None /\ ContainsMate(threat_exp))
                            \/ (r # None /\ ContainsMate(r))),
               OrElse(r, explanation)))

AfterThreat(c, was_best, cp_loss, grade, constraint_found, threat_exp, explanation) ==
    AfterDetectors(c, was_best, cp_loss, grade, constraint_found, threat_exp,
                   explanation, DetectorPhase(c, explanation))

\* faulty variant: a flagged threat leaves no explanation of its own
AfterConstraints_threat_unexplained(c, was_best, cp_loss, raw_grade, con, threat_exp) ==
    AfterThreat(c, was_best, cp_loss,
                IF con[2] # NoGrade THEN con[2] ELSE raw_grade,
                con[1] # None /\ ~con[3], threat_exp,
                IF con[3] THEN threat_exp ELSE OrElse(threat_exp, con[1]))

AfterConstraints(c, was_best, cp_loss, raw_grade, con, threat_exp) ==
    AfterThreat(c, was_best, cp_loss,
                IF con[2] # NoGrade THEN con[2] ELSE raw_grade,
                con[1] # None, threat_exp, OrElse(threat_exp, con[1]))

AfterGrading(c, was_best, cp_loss, con) ==
    AfterConstraints(c, was_best, cp_loss, _determine_grade(cp_loss, was_best),
                     con, ThreatPhase(c, con[3]))

\* the MoveAssessment assess_move builds from its arguments c
MoveAssessment(c) ==
    AfterGrading(c,
        IF c.best_move # NoMove THEN c.move_played = c.best_move ELSE FALSE,
        _calculate_centipawn_loss(c.eval_initial, c.eval_final, c.player_is_white),
        ConstraintPhase(c))

\* line 846 and the return: the counters are updated with the grade
Return(c, ma, a) ==
    /\ call' = c
    /\ result' = ma
    /\ adaptive' = a
    /\ hist' = Append(hist, ma.grade)
    /\ modes' = Append(modes, get_current_mode(a))
    /\ UNCHANGED <<gin, gout>>

\* as Update, with the counters fed the grade of the loss alone
Update_raw_grade(c, ma) ==
    Return(c, ma, _update_adaptive_state(adaptive,
                      _determine_grade(ma.centipawn_loss, ma.was_best_move)))

Update(c, ma) == Return(c, ma, _update_adaptive_state(adaptive, ma.grade))

\* one call of assess_move with the arguments c
assess_move(c) == Update(c, MoveAssessment(c))

(***************************************************************************)
(* The boards as the objects the callers own.  A chess.Board is changed in *)
(* place by push and pop: it is the position on entry with the stack of    *)
(* moves pushed since.  Each operator below follows the pushes and pops of *)
(* the function it is named after and returns its value with the board as  *)
(* it leaves it.                                                           *)
(***************************************************************************)
\* chess.Move.null()
NullMove == [from_square |-> 0, to_square |-> 0]

\* the caller's board on entry
Mutable(b) == [root |-> b, stack |-> <<>>]

\* the position after the moves of a stack
RECURSIVE BoardAt(_, _)
BoardAt(b, stack) ==
    IF stack = <<>> THEN b
    ELSE BoardAt(IF Head(stack) = NullMove THEN b.null ELSE b.next[Head(stack)],
                 Tail(stack))

\* the position a board object holds
Current(mb) == BoardAt(mb.root, mb.stack)

board_push(mb, mv) == [mb EXCEPT !.stack = Append(@, mv)]
board_pop(mb) == [mb EXCEPT !.stack = SubSeq(@, 1, Len(@) - 1)]
\* board.copy(): a new object, which pushes and pops leave the original of
board_copy(mb) == mb

\* the moves of a set in the order a loop meets them
RECURSIVE MoveList(_)
MoveList(S) ==
    IF S = {} THEN <<>>
    ELSE LET first == CHOOSE m \in S : \A o \in S :
                          \/ m.from_square < o.from_square
                          \/ m.from_square = o.from_square /\ m.to_square <= o.to_square
         IN <<first>> \o MoveList(S \ {first})

\* list(board.legal_moves) of a board object
LegalList(mb) == MoveList(legal_moves(Current(mb)))

\* the loop of lines 132-137 and 214-219: push, and pop before the return
\* as well as at the end of the body
RECURSIVE PopThenReturn(_, _)
PopThenReturn(mb, todo) ==
    IF todo = <<>> THEN <<FALSE, mb>>
    ELSE IF is_checkmate(Current(board_push(mb, Head(todo))))
    THEN <<TRUE, board_pop(board_push(mb, Head(todo)))>>
    ELSE PopThenReturn(board_pop(board_push(mb, Head(todo))), Tail(todo))

\* the loop of lines 151-156 and 729-734: push, test, pop, then return
RECURSIVE TestThenPop(_, _)
TestThenPop(mb, todo) ==
    IF todo = <<>> THEN <<FALSE, mb>>
    ELSE IF is_checkmate(Current(board_push(mb, Head(todo))))
    THEN <<TRUE, board_pop(board_push(mb, Head(todo)))>>
    ELSE TestThenPop(board_pop(board_push(mb, Head(todo))), Tail(todo))

\* lines 139-143: the first piece type with an attacked, undefended piece
PieceLabel(board, color) ==
    IF Capturable(board, color, QUEEN) # {} THEN CanBeCaptured(QUEEN)
    ELSE IF Capturable(board, color, ROOK) # {} THEN CanBeCaptured(ROOK)
    ELSE IF Capturable(board, color, BISHOP) # {} THEN CanBeCaptured(BISHOP)
    ELSE IF Capturable(board, color, KNIGHT) # {} THEN CanBeCaptured(KNIGHT)
    ELSE None

\* lines 136 and 139-143, on the board as the loop left it
ThreatLabel(found, color) ==
    IF found[1] THEN <<"This move failed to stop a mate threat.", found[2]>>
    ELSE <<PieceLabel(Current(found[2]), color), found[2]>>

\* as _detect_threat_type_on, returning from the loop without the pop: the
\* first mating reply stays on the board
_detect_threat_type_unpopped(mb, color) ==
    IF Current(mb).turn = ~color /\ PopThenReturn(mb, LegalList(mb))[1]
    THEN <<"This move failed to stop a mate threat.",
           board_push(mb, LegalList(mb)[
               CHOOSE i \in 1 .. Len(LegalList(mb)) :
                  /\ is_checkmate(Current(board_push(mb, LegalList(mb)[i])))
                  /\ \A j \in 1 .. (i - 1) :
                        ~is_checkmate(Current(board_push(mb, LegalList(mb)[j])))])>>
    ELSE ThreatLabel(<<FALSE, mb>>, color)

_detect_threat_type_on(mb, color) ==
    IF Current(mb).turn = ~color
    THEN ThreatLabel(PopThenReturn(mb, LegalList(mb)), color)
    ELSE ThreatLabel(<<FALSE, mb>>, color)

_opponent_can_mate_in_one_on(mb) == TestThenPop(mb, LegalList(mb))

\* lines 161-167: safe.append(mv) unless the opponent can mate after mv
RECURSIVE SafeScan(_, _, _)
SafeScan(mb, todo, safe) ==
    IF todo = <<>> THEN <<safe, mb>>
    ELSE LET r == _opponent_can_mate_in_one_on(board_push(mb, Head(todo)))
         IN SafeScan(board_pop(r[2]), Tail(todo),
                     IF r[1] THEN safe ELSE safe \cup {Head(todo)})

_get_moves_avoiding_immediate_mate_on(mb) == SafeScan(mb, LegalList(mb), {})

\* lines 186-195, with safe as the walk over the legal moves returned it
AfterSafe(r, move, pe0, pe1) ==
    <<IF Cardinality(r[1]) = 1 /\ move \in r[1]
      THEN <<"This was the only move to avoid checkmate.", BEST, FALSE>>
      ELSE IF Cardinality(r[1]) = 0
      THEN <<"No move could prevent checkmate.", NoGrade, FALSE>>
      ELSE IF pe0 >= -100 /\ pe1 <= -300
      THEN <<"This move failed to address the threat.", NoGrade, TRUE>>
      ELSE <<None, NoGrade, FALSE>>,
      r[2]>>

analyze_constraints_on(mb, move, e0, e1, is_white) ==
    IF Len(LegalList(mb)) = 1
    THEN <<<<"This was the only legal move.", BEST, FALSE>>, mb>>
    ELSE IF _to_player_eval(e0, is_white) <= 0 - MATE_THRESHOLD
    THEN <<<<"Checkmate was unavoidable.", NoGrade, FALSE>>, mb>>
    ELSE IF _to_player_eval(e0, is_white) <= -800
    THEN <<<<"The position was already lost.", NoGrade, FALSE>>, mb>>
    ELSE AfterSafe(_get_moves_avoiding_immediate_mate_on(mb), move,
                   _to_player_eval(e0, is_white), _to_player_eval(e1, is_white))

_detect_new_mate_threat_on(mb, player_color) ==
    IF Current(mb).turn # ~player_color THEN <<None, mb>>
    ELSE IF TestThenPop(mb, LegalList(mb))[1]
    THEN <<"This move allowed a mate threat.", TestThenPop(mb, LegalList(mb))[2]>>
    ELSE <<None, TestThenPop(mb, LegalList(mb))[2]>>

\* lines 740-773 after the mate-threat detector returned r
PatternsAfterMate(r, board_before, player_color, move_played) ==
    IF r[1] # None THEN r
    ELSE <<detect_tactical_pattern(board_before, Current(r[2]), player_color,
                                   move_played, TRUE), r[2]>>

detect_tactical_pattern_on(board_before, mb_after, player_color, move_played, threat_already_detected) ==
    PatternsAfterMate(
        IF ~threat_already_detected
        THEN _detect_new_mate_threat_on(mb_after, player_color)
        ELSE <<None, mb_after>>,
        board_before, player_color, move_played)

\* lines 207-220: the null move and the replies are pushed on the copy
_has_mate_threat_on(mb, color) ==
    IF Current(mb).turn # color THEN <<FALSE, mb>>
    ELSE IF is_check(Current(mb)) THEN <<FALSE, mb>>
    ELSE <<PopThenReturn(board_push(board_copy(mb), NullMove),
                         LegalList(board_push(board_copy(mb), NullMove)))[1],
           mb>>

\* assess_move on the caller's board objects, phase by phase as lines
\* 800-851: the explanation and grade returned and the two boards as the
\* call leaves them
OnReturn(c, con, grade, explanation, pattern) ==
    [grade |-> grade,
     explanation |->
        IF OrElse(pattern[1], explanation) = None
        THEN _generate_fallback_explanation(grade,
                _calculate_centipawn_loss(c.eval_initial, c.eval_final,
                                          c.player_is_white),
                c.best_move # NoMove)
        ELSE OrElse(pattern[1], explanation),
     board_before |-> con[2],
     board_after |-> pattern[2]]

OnPatterns(c, con, threat, grade, r, explanation) ==
    OnReturn(c, con, grade, OrElse(r, explanation),
        IF /\ OrElse(r, explanation) = None /\ con[1][1] = None
           /\ c.board_before # NoBoard /\ c.board_after # NoBoard
           /\ grade \in {INACCURACY, MISTAKE, BLUNDER}
        THEN detect_tactical_pattern_on(Current(con[2]), threat[2],
                 c.player_is_white, c.move_played,
                 \/ (threat[1] # None /\ ContainsMate(threat[1]))
                 \/ (r # None /\ ContainsMate(r)))
        ELSE <<None, threat[2]>>)

OnDetectors(c, con, threat, grade, explanation) ==
    OnPatterns(c, con, threat, grade,
        DetectorPhase([c EXCEPT !.board_before = Current(con[2]),
                                !.board_after = Current(threat[2])], explanation),
        explanation)

OnThreat(c, con, threat) ==
    OnDetectors(c, con, threat,
        IF con[1][2] # NoGrade THEN con[1][2]
        ELSE _determine_grade(
                _calculate_centipawn_loss(c.eval_initial, c.eval_final,
                                          c.player_is_white),
                IF c.best_move # NoMove THEN c.move_played = c.best_move ELSE FALSE),
        OrElse(threat[1], con[1][1]))

OnConstraints(c, con) ==
    OnThreat(c, con,
        IF con[1][3] /\ c.board_after # NoBoard
        THEN _detect_threat_type_on(Mutable(c.board_after), c.player_is_white)
        ELSE <<None, Mutable(c.board_after)>>)

assess_move_on(c) ==
    OnConstraints(c,
        IF c.board_before # NoBoard
        THEN analyze_constraints_on(Mutable(c.board_before), c.move_played,
                                    c.eval_initial, c.eval_final, c.player_is_white)
        ELSE <<<<None, NoGrade, FALSE>>, Mutable(c.board_before)>>)

\* analyze_pre_move_threats on the caller's board object: every known mode
\* asks _has_mate_threat first, the other questions only read the board
analyze_pre_move_threats_on(a, mb, color, mode) ==
    IF _resolve_mode(a, mode) \in {"hard", "medium", "easy", "learning"}
    THEN [mate_threat |-> _has_mate_threat_on(mb, color)[1],
          hint |-> analyze_pre_move_threats(a,
                      Current(_has_mate_threat_on(mb, color)[2]), color, mode),
          board |-> _has_mate_threat_on(mb, color)[2]]
    ELSE [mate_threat |-> FALSE, hint |-> None, board |-> mb]

(***************************************************************************)
(* Inputs: positions as the callers build them (gui.py 584-602: the board  *)
(* before the move and a copy with the move pushed), evaluations as the    *)
(* engine adapter reports them (engine.py 51-68).                          *)
(***************************************************************************)
Move(from, to) == [from_square |-> from, to_square |-> to]

\* a placement from a set of <<square, piece type, colour>>
Placement(ps) ==
    [sq \in {p[1] : p \in ps} |->
        LET p == CHOOSE q \in ps : q[1] = sq
        IN [type |-> p[2], color |-> p[3]]]

\* the squares of the lower left corner, by name
a1 == square(0, 0)
b1 == square(1, 0)
c1 == square(2, 0)
d1 == square(3, 0)
a2 == square(0, 1)
b2 == square(1, 1)
c2 == square(2, 1)
d2 == square(3, 1)
a3 == square(0, 2)
b3 == square(1, 2)
c3 == square(2, 2)
d3 == square(3, 2)
a4 == square(0, 3)
b4 == square(1, 3)
c4 == square(2, 3)
d4 == square(3, 3)

\* piece placements before and after a move of White, with that move
Scenes ==
    << \* 1: a quiet rook move
       [before |-> {<<a1, KING, WHITE>>, <<b1, ROOK, WHITE>>, <<d4, KING, BLACK>>},
        after  |-> {<<a1, KING, WHITE>>, <<b2, ROOK, WHITE>>, <<d4, KING, BLACK>>},
        move   |-> Move(b1, b2)],
       \* 2: the queen steps onto a square the rook attacks
       [before |-> {<<a1, KING, WHITE>>, <<b1, QUEEN, WHITE>>,
                    <<d4, KING, BLACK>>, <<d3, ROOK, BLACK>>},
        after  |-> {<<a1, KING, WHITE>>, <<b3, QUEEN, WHITE>>,
                    <<d4, KING, BLACK>>, <<d3, ROOK, BLACK>>},
        move   |-> Move(b1, b3)],
       \* 3: the knight steps out of the rook's line to the queen
       [before |-> {<<a1, KING, WHITE>>, <<a3, QUEEN, WHITE>>, <<c3, KNIGHT, WHITE>>,
                    <<d4, KING, BLACK>>, <<d3, ROOK, BLACK>>},
        after  |-> {<<a1, KING, WHITE>>, <<a3, QUEEN, WHITE>>, <<d1, KNIGHT, WHITE>>,
                    <<d4, KING, BLACK>>, <<d3, ROOK, BLACK>>},
        move   |-> Move(c3, d1)],
       \* 4: the rook steps into a knight fork with the queen
       [before |-> {<<d2, KING, WHITE>>, <<b1, QUEEN, WHITE>>, <<a3, ROOK, WHITE>>,
                    <<d4, KING, BLACK>>, <<c3, KNIGHT, BLACK>>},
        after  |-> {<<d2, KING, WHITE>>, <<b1, QUEEN, WHITE>>, <<a2, ROOK, WHITE>>,
                    <<d4, KING, BLACK>>, <<c3, KNIGHT, BLACK>>},
        move   |-> Move(a3, a2)],
       \* 5: the king steps behind its knight on the rook's file
       [before |-> {<<b1, KING, WHITE>>, <<a2, KNIGHT, WHITE>>,
                    <<d4, KING, BLACK>>, <<a4, ROOK, BLACK>>},
        after  |-> {<<a1, KING, WHITE>>, <<a2, KNIGHT, WHITE>>,
                    <<d4, KING, BLACK>>, <<a4, ROOK, BLACK>>},
        move   |-> Move(b1, a1)],
       \* 6: the queen steps between the rook and her knight
       [before |-> {<<a1, KING, WHITE>>, <<b1, QUEEN, WHITE>>, <<a3, KNIGHT, WHITE>>,
                    <<d4, KING, BLACK>>, <<d3, ROOK, BLACK>>},
        after  |-> {<<a1, KING, WHITE>>, <<b3, QUEEN, WHITE>>, <<a3, KNIGHT, WHITE>>,
                    <<d4, KING, BLACK>>, <<d3, ROOK, BLACK>>},
        move   |-> Move(b1, b3)],
       \* 7: the king is shut in on its back rank, which the rook reaches
       [before |-> {<<a1, KING, WHITE>>, <<a2, PAWN, WHITE>>, <<b2, PAWN, WHITE>>,
                    <<c1, ROOK, WHITE>>, <<d4, KING, BLACK>>, <<d3, ROOK, BLACK>>},
        after  |-> {<<a1, KING, WHITE>>, <<a2, PAWN, WHITE>>, <<b2, PAWN, WHITE>>,
                    <<c2, ROOK, WHITE>>, <<d4, KING, BLACK>>, <<d3, ROOK, BLACK>>},
        move   |-> Move(c1, c2)],
       \* 8: the knight blocks the rook that defended two attacked pawns
       [before |-> {<<b1, KING, WHITE>>, <<a2, ROOK, WHITE>>, <<d2, PAWN, WHITE>>,
                    <<a3, PAWN, WHITE>>, <<a1, KNIGHT, WHITE>>,
                    <<d4, KING, BLACK>>, <<d3, ROOK, BLACK>>},
        after  |-> {<<b1, KING, WHITE>>, <<a2, ROOK, WHITE>>, <<d2, PAWN, WHITE>>,
                    <<a3, PAWN, WHITE>>, <<c2, KNIGHT, WHITE>>,
                    <<d4, KING, BLACK>>, <<d3, ROOK, BLACK>>},
        move   |-> Move(a1, c2)],
       \* 9: the knight already forks queen and rook; the king steps aside
       [before |-> {<<d2, KING, WHITE>>, <<b1, QUEEN, WHITE>>, <<a2, ROOK, WHITE>>,
                    <<d4, KING, BLACK>>, <<c3, KNIGHT, BLACK>>},
        after  |-> {<<c1, KING, WHITE>>, <<b1, QUEEN, WHITE>>, <<a2, ROOK, WHITE>>,
                    <<d4, KING, BLACK>>, <<c3, KNIGHT, BLACK>>},
        move   |-> Move(d2, c1)],
       \* 10: the rook attacks a rook and a bishop, neither defended
       [before |-> {<<b1, KING, WHITE>>, <<c3, ROOK, WHITE>>, <<d1, BISHOP, WHITE>>,
                    <<d4, KING, BLACK>>, <<d3, ROOK, BLACK>>},
        after  |-> {<<a1, KING, WHITE>>, <<c3, ROOK, WHITE>>, <<d1, BISHOP, WHITE>>,
                    <<d4, KING, BLACK>>, <<d3, ROOK, BLACK>>},
        move   |-> Move(b1, a1)],
       \* 11: the rook attacks a bishop and a knight, neither defended
       [before |-> {<<b1, KING, WHITE>>, <<d1, BISHOP, WHITE>>, <<a3, KNIGHT, WHITE>>,
                    <<d4, KING, BLACK>>, <<d3, ROOK, BLACK>>},
        after  |-> {<<a1, KING, WHITE>>, <<d1, BISHOP, WHITE>>, <<a3, KNIGHT, WHITE>>,
                    <<d4, KING, BLACK>>, <<d3, ROOK, BLACK>>},
        move   |-> Move(b1, a1)],
       \* 12: the rook attacks an undefended knight
       [before |-> {<<b1, KING, WHITE>>, <<a3, KNIGHT, WHITE>>,
                    <<d4, KING, BLACK>>, <<d3, ROOK, BLACK>>},
        after  |-> {<<a1, KING, WHITE>>, <<a3, KNIGHT, WHITE>>,
                    <<d4, KING, BLACK>>, <<d3, ROOK, BLACK>>},
        move   |-> Move(b1, a1)],
       \* 13: the rook attacks a queen and a rook, neither defended
       [before |-> {<<b1, KING, WHITE>>, <<d1, QUEEN, WHITE>>, <<c3, ROOK, WHITE>>,
                    <<d4, KING, BLACK>>, <<d3, ROOK, BLACK>>},
        after  |-> {<<a1, KING, WHITE>>, <<d1, QUEEN, WHITE>>, <<c3, ROOK, WHITE>>,
                    <<d4, KING, BLACK>>, <<d3, ROOK, BLACK>>},
        move   |-> Move(b1, a1)]
    >>

\* the other legal moves of the position before the move, and the replies
\* the rules engine lists after a move
OtherMoves == {Move(c4, b4), Move(c4, c3), Move(c4, b3)}
Replies == {Move(d4, c4), Move(d4, c3)}
MatingReply == Move(d4, c4)
\* a recommended move that is not the move played
OtherMove == Move(c4, b4)

RECURSIVE Take(_, _)
Take(S, n) ==
    IF n = 0 \/ S = {} THEN {}
    ELSE LET x == CHOOSE y \in S : TRUE IN {x} \cup Take(S \ {x}, n - 1)

\* the board after a move and a reply: only is_checkmate is asked of it
Leaf(mate) == [checkmate |-> mate]

\* the attack map of a placement, as chess.Board.attacks answers from it
AttackMap(placement) == [sq \in DOMAIN placement |-> AttackSet(placement, sq)]

\* the board after one of the legal moves, of which only the replies and
\* whether they mate are asked: one reply mates if mate
AfterLegal(mate) ==
    [checkmate |-> FALSE,
     next |-> [r \in Replies |-> Leaf(mate /\ r = MatingReply)]]

\* a board whose side to move has the replies, one of them mating if mate
ReplyBoard(placement, att, turn, mate) ==
    [piece |-> placement, turn |-> turn, checkmate |-> FALSE,
     attacks |-> att,
     next |-> [r \in Replies |-> Leaf(mate /\ r = MatingReply)]]

\* the position before the move: the mover has the legal moves, and after
\* those in danger the opponent has a mating reply
BeforeBoard(placement, att, turn, legal, danger) ==
    [piece |-> placement, turn |-> turn, checkmate |-> FALSE,
     attacks |-> att,
     next |-> [mv \in legal |-> AfterLegal(mv \in danger)]]

\* the legal-move sets containing the move played, with the moves among
\* them that allow a mating reply
LegalSets(scene) ==
    {legal \in SUBSET ({scene.move} \cup Take(OtherMoves, MaxLegal - 1)) :
        scene.move \in legal}

BoardsWith(placement, att, scene, is_white) ==
    UNION {{BeforeBoard(placement, att, is_white, legal, danger) :
                danger \in SUBSET legal} : legal \in LegalSets(scene)}

BoardsBefore(scene, is_white) ==
    BoardsWith(Placement(scene.before), AttackMap(Placement(scene.before)),
               scene, is_white)

BoardsAfter(scene, is_white) ==
    {ReplyBoard(Placement(scene.after), AttackMap(Placement(scene.after)),
                ~is_white, mate) : mate \in BOOLEAN}

\* the adapter's score for a forced mate (engine.py 55)
MATE_SCORE == 100000

\* the evaluations before and after the move, from the mover's side: every
\* grading band, the constraint thresholds and mate scores gained and lost
PlayerEvalPairs ==
    {<<0, 0>>, <<300, 305>>, <<20, 0>>, <<50, 0>>, <<100, 0>>, <<50, -120>>,
     <<0, -300>>, <<-800, -800>>, <<-800, 0 - MATE_SCORE>>,
     <<0 - MATE_SCORE, 0 - MATE_SCORE>>, <<0, 0 - MATE_SCORE>>,
     <<MATE_SCORE, 300>>, <<MATE_SCORE, MATE_SCORE>>}

\* the White-relative score the adapter reports for a mover-relative one
WhiteRelative(pe, w) == IF w THEN pe ELSE 0 - pe

\* the scene with the colours swapped and the ranks flipped: the same move
\* played by Black
MirrorSquare(sq) == square(square_file(sq), BoardSize - 1 - square_rank(sq))
MirrorPieces(ps) == {<<MirrorSquare(p[1]), p[2], ~p[3]>> : p \in ps}
Mirror(scene) ==
    [before |-> MirrorPieces(scene.before), after |-> MirrorPieces(scene.after),
     move |-> Move(MirrorSquare(scene.move.from_square),
                   MirrorSquare(scene.move.to_square))]

\* the scene as played by the given colour
SceneOf(i, w) == IF w THEN Scenes[i] ELSE Mirror(Scenes[i])

\* the calls of assess_move on one scene: the recommended move is absent,
\* the move played or another move; either board may be left out
CallsOf(scene, w) ==
    {[move_played |-> scene.move,
      eval_initial |-> WhiteRelative(pe[1], w),
      eval_final |-> WhiteRelative(pe[2], w),
      best_move |-> bm, player_is_white |-> w,
      board_before |-> bb, board_after |-> ba] :
        pe \in PlayerEvalPairs,
        bm \in {NoMove, scene.move, OtherMove},
        bb \in BoardsBefore(scene, w) \cup {NoBoard},
        ba \in BoardsAfter(scene, w) \cup {NoBoard}}

\* the calls of a game session: the CLI loop (main_CLI_Output.py 192-198)
\* passes no boards and plays White; the evaluations produce every grade
SessionFinals == {0, -20, -50, -100, -300}
SessionInputs ==
    {[move_played |-> Scenes[1].move, eval_initial |-> 0, eval_final |-> e1,
      best_move |-> bm, player_is_white |-> TRUE,
      board_before |-> NoBoard, board_after |-> NoBoard] :
        e1 \in SessionFinals, bm \in {Scenes[1].move, OtherMove}}
    \cup
    \* the GUI (gui.py 594-602) passes the boards: a forced move
    {[move_played |-> Scenes[1].move, eval_initial |-> 0, eval_final |-> -300,
      best_move |-> OtherMove, player_is_white |-> TRUE,
      board_before |-> BeforeBoard(Placement(Scenes[1].before),
                                   AttackMap(Placement(Scenes[1].before)),
                                   WHITE, {Scenes[1].move}, {}),
      board_after |-> ReplyBoard(Placement(Scenes[1].after),
                                 AttackMap(Placement(Scenes[1].after)),
                                 BLACK, FALSE)]}

\* the games of the process: for each caller's game the moves assessed in it
\* and the counters an adaptive state of its own would hold, and the game
\* whose move was assessed last (0: none since a game began)
Games == {1, 2}
NoGames ==
    [moves |-> [g \in Games |-> 0],
     own |-> [g \in Games |-> [blunders |-> 0, good_moves |-> 0]],
     last |-> 0]

(***************************************************************************)
(* Spec: a game session.  Moves are assessed one after the other and the   *)
(* adaptive state is reset now and then.                                   *)
(***************************************************************************)
Init ==
    /\ adaptive = [blunders |-> 0, good_moves |-> 0]
    /\ call = NoCall
    /\ result = NoResult
    /\ hist = <<>>
    /\ modes = <<>>
    /\ gin = NoCall
    /\ gout = NoResult
    /\ games = NoGames

AssessMove ==
    /\ Len(hist) < MaxHist
    /\ \E c \in SessionInputs : assess_move(c)
    /\ UNCHANGED games

ResetAdaptiveState ==
    /\ adaptive' = reset_adaptive_state(adaptive)
    /\ hist' = <<>>
    /\ modes' = <<>>
    /\ UNCHANGED <<call, result, gin, gout, games>>

Next == AssessMove \/ ResetAdaptiveState

Spec == Init /\ [][Next]_vars

(***************************************************************************)
(* SpecAssess: one call of assess_move on every argument combination.      *)
(***************************************************************************)
AssessOnce ==
    /\ call = NoCall
    /\ \E i \in DOMAIN Scenes, w \in BOOLEAN :
          \E c \in CallsOf(SceneOf(i, w), w) : assess_move(c)
    /\ UNCHANGED games

NextAssess == AssessOnce

SpecAssess == Init /\ [][NextAssess]_vars

(***************************************************************************)
(* SpecGames: the games of one process.  Each caller (a window of gui.py,  *)
(* a play_game loop) assesses the moves of its game through the one        *)
(* module-level _adaptive, and starts a new game as gui.py 697-713 does.   *)
(***************************************************************************)
\* the calls of a game: a BLUNDER, an INACCURACY and the recommended move
GameInputs ==
    {c \in SessionInputs :
        /\ c.board_before = NoBoard
        /\ \/ c.best_move = c.move_played /\ c.eval_final = 0
           \/ c.best_move # c.move_played /\ c.eval_final \in {-50, -300}}

\* a move of game g is assessed (gui.py 594-602, main_CLI_Output.py 192-198)
GameAssess(g) ==
    /\ Len(hist) < MaxGameMoves
    /\ \E c \in GameInputs :
          /\ assess_move(c)
          /\ games' = [moves |-> [games.moves EXCEPT ![g] = @ + 1],
                       own |-> [games.own EXCEPT
                                  ![g] = _update_adaptive_state(@, MoveAssessment(c).grade)],
                       last |-> g]

\* MainWindow._handle_new_game (gui.py 697-713): the board and the display
\* are replaced; nothing of instructor.py is called
_handle_new_game(g) ==
    /\ games' = [moves |-> [games.moves EXCEPT ![g] = 0],
                 own |-> [games.own EXCEPT ![g] = [blunders |-> 0, good_moves |-> 0]],
                 last |-> 0]
    /\ UNCHANGED <<adaptive, call, result, hist, modes, gin, gout>>

NextGames == \E g \in Games : GameAssess(g) \/ _handle_new_game(g)

SpecGames == Init /\ [][NextGames]_vars

(***************************************************************************)
(* SpecOracle: the constraint analysis with oracle lookahead alone         *)
(* (instructor_no_tact_analysis.py 256-300).                               *)
(***************************************************************************)
\* what the oracle says of a position after an alternative, mover-relative:
\* lost, level, or no answer
OracleAnswers(w) ==
    {OracleError, Score(WhiteRelative(-900, w)), Score(WhiteRelative(0, w))}

\* the arguments of one call: n legal moves, the move played, the
\* mover-relative evaluations pe, the oracle's answers o, and whether the
\* move played is alone in avoiding mate
OracleInput(n, w, mv, pe, engine, o, alone) ==
    [legal |-> [i \in 1 .. n |-> i], move_played |-> mv,
     eval_initial |-> WhiteRelative(pe[1], w),
     eval_final |-> WhiteRelative(pe[2], w),
     is_white |-> w, engine |-> engine, oracle |-> o,
     safe |-> IF alone THEN {mv} ELSE 1 .. n]

OracleEvalPairs == {<<0, 0>>, <<0, -300>>, <<-800, -800>>}

\* positions with 1 .. MaxOracleMoves legal moves, the move played the first
\* or the last of them; without an engine the oracle is never asked
InitOracle ==
    /\ adaptive = [blunders |-> 0, good_moves |-> 0]
    /\ call = NoCall
    /\ result = NoResult
    /\ hist = <<>>
    /\ modes = <<>>
    /\ \E n \in 1 .. MaxOracleMoves, w \in BOOLEAN, pe \in OracleEvalPairs,
          alone \in BOOLEAN :
         \E mv \in {1, n} :
            \/ \E o \in [1 .. n -> OracleAnswers(w)] :
                  gin = OracleInput(n, w, mv, pe, TRUE, o, alone)
            \/ gin = OracleInput(n, w, mv, pe, FALSE,
                                 [i \in 1 .. n |-> OracleError], alone)
    /\ gout = NoResult
    /\ games = NoGames

\* the constraint explanation, the engine.analyze calls made for it, and the
\* grade assess_move (lines 324-326, best_move None) returns with it: the
\* grade is assigned once, before the constraint analysis, and never again
AnalyzeConstraints ==
    /\ gout = NoResult
    /\ LET r == analyze_constraints_no_tact(gin)
       IN gout' = [explanation |-> r[1], evaluations |-> r[2],
                   grade |-> _determine_grade(
                                _calculate_centipawn_loss(gin.eval_initial,
                                    gin.eval_final, gin.is_white), FALSE)]
    /\ UNCHANGED <<adaptive, call, result, hist, modes, gin, games>>

NextOracle == AnalyzeConstraints

SpecOracle == InitOracle /\ [][NextOracle]_vars

(***************************************************************************)
(* SpecAdvise: one call of analyze_pre_move_threats (instructor.py         *)
(* 323-370) on a position of the player to advise, at every difficulty the *)
(* counters reach.                                                         *)
(***************************************************************************)
\* positions of White, the side advised
Positions ==
    << \* 1: nothing is attacked
       {<<a1, KING, WHITE>>, <<b1, ROOK, WHITE>>, <<d4, KING, BLACK>>},
       \* 2: the king is in check from the rook
       {<<a1, KING, WHITE>>, <<d4, KING, BLACK>>, <<a4, ROOK, BLACK>>},
       \* 3: two rooks attack the king
       {<<a1, KING, WHITE>>, <<d4, KING, BLACK>>, <<a4, ROOK, BLACK>>,
        <<d1, ROOK, BLACK>>},
       \* 4: the queen is attacked by the rook and undefended
       {<<a1, KING, WHITE>>, <<b3, QUEEN, WHITE>>, <<d4, KING, BLACK>>,
        <<d3, ROOK, BLACK>>},
       \* 5: the rook is attacked by the rook and undefended
       {<<a1, KING, WHITE>>, <<c2, ROOK, WHITE>>, <<d4, KING, BLACK>>,
        <<c4, ROOK, BLACK>>},
       \* 6: the bishop is attacked by the rook and undefended
       {<<a1, KING, WHITE>>, <<c2, BISHOP, WHITE>>, <<d4, KING, BLACK>>,
        <<c4, ROOK, BLACK>>},
       \* 7: the knight is attacked by the rook and defended by the king
       {<<a1, KING, WHITE>>, <<a2, KNIGHT, WHITE>>, <<d4, KING, BLACK>>,
        <<a4, ROOK, BLACK>>},
       \* 8: the knight is attacked by the rook and undefended
       {<<a1, KING, WHITE>>, <<a3, KNIGHT, WHITE>>, <<d4, KING, BLACK>>,
        <<a4, ROOK, BLACK>>},
       \* 9: the queen is defended and attacked by a knight pinned to its king
       {<<a1, KING, WHITE>>, <<c1, QUEEN, WHITE>>, <<d1, ROOK, WHITE>>,
        <<d4, KING, BLACK>>, <<d3, KNIGHT, BLACK>>},
       \* 10: the queen is defended and attacked by a knight free to take
       {<<a1, KING, WHITE>>, <<c1, QUEEN, WHITE>>, <<d1, ROOK, WHITE>>,
        <<c4, KING, BLACK>>, <<d3, KNIGHT, BLACK>>}
    >>

Modes == {"hard", "medium", "easy", "learning", "adaptive", "unknown"}

\* the board handed to analyze_pre_move_threats: n legal moves for the side
\* to move, and after a null move replies of which one mates if mate
AdviseBoard(placement, att, turn, n, mate) ==
    [piece |-> placement, turn |-> turn, checkmate |-> FALSE,
     attacks |-> att,
     next |-> [mv \in Take(OtherMoves, n) |-> AfterLegal(FALSE)],
     null |-> ReplyBoard(placement, att, ~turn, mate)]

\* the boards on one placement
AdviseBoards(placement, att) ==
    {AdviseBoard(placement, att, turn, n, mate) :
        turn \in BOOLEAN, n \in 1 .. Cardinality(OtherMoves), mate \in BOOLEAN}

\* the counters after n blunders in a row from the start of the game
Blundered(n) == [blunders |-> n, good_moves |-> 0]

InitAdvise ==
    /\ \E n \in 0 .. MaxHist :
         /\ adaptive = Blundered(n)
         /\ hist = [i \in 1 .. n |-> BLUNDER]
         /\ modes = [i \in 1 .. n |-> get_current_mode(Blundered(i))]
    /\ call = NoCall
    /\ result = NoResult
    /\ \E i \in DOMAIN Positions, w \in BOOLEAN :
         \E board \in AdviseBoards(
                         Placement(IF w THEN Positions[i]
                                   ELSE MirrorPieces(Positions[i])),
                         AttackMap(Placement(IF w THEN Positions[i]
                                             ELSE MirrorPieces(Positions[i])))) :
            \E mode \in Modes : gin = [board |-> board, color |-> w, mode |-> mode]
    /\ gout = NoResult
    /\ games = NoGames

Advise ==
    /\ gout = NoResult
    /\ gout' = [hint |-> analyze_pre_move_threats(adaptive, gin.board,
                                                  gin.color, gin.mode)]
    /\ UNCHANGED <<adaptive, call, result, hist, modes, gin, games>>

NextAdvise == Advise

SpecAdvise == InitAdvise /\ [][NextAdvise]_vars

(***************************************************************************)
(* SpecBoards: one call of assess_move or of analyze_pre_move_threats on   *)
(* board objects of the caller, which the call may push moves on and pop   *)
(* them off.                                                               *)
(***************************************************************************)
AssessOnBoards ==
    /\ gout = NoResult
    /\ \E i \in DOMAIN Scenes, w \in BOOLEAN :
         \E c \in CallsOf(SceneOf(i, w), w) :
            /\ gin' = [function |-> "assess_move", args |-> c]
            /\ gout' = [function |-> "assess_move", returned |-> assess_move_on(c)]
    /\ UNCHANGED <<adaptive, call, result, hist, modes, games>>

AdviseOnBoards ==
    /\ gout = NoResult
    /\ \E i \in DOMAIN Positions, w \in BOOLEAN :
         \E board \in AdviseBoards(
                         Placement(IF w THEN Positions[i]
                                   ELSE MirrorPieces(Positions[i])),
                         AttackMap(Placement(IF w THEN Positions[i]
                                             ELSE MirrorPieces(Positions[i])))) :
            \E mode \in Modes :
               /\ gin' = [function |-> "analyze_pre_move_threats",
                          args |-> [board |-> board, color |-> w, mode |-> mode]]
               /\ gout' = [function |-> "analyze_pre_move_threats",
                           returned |-> analyze_pre_move_threats_on(
                                           adaptive, Mutable(board), w, mode)]
    /\ UNCHANGED <<adaptive, call, result, hist, modes, games>>

NextBoards == AssessOnBoards \/ AdviseOnBoards

SpecBoards == Init /\ [][NextBoards]_vars

(***************************************************************************)
(* SpecGrade: the grading core alone (instructor.py 47-69, 792-793).       *)
(***************************************************************************)
BandEdges == {0, 10, 25, 50, 100, MATE_THRESHOLD}

\* centipawn losses around every band edge, of both signs, and the losses
\* of the documented scenarios
LossSet ==
    UNION {{e + d, 0 - (e + d)} : e \in BandEdges, d \in (0 - Near) .. Near}
      \cup {5, -5, 170, -170}

GradeInputs ==
    {[eval_initial |-> e0, eval_final |-> e0 - l, is_white |-> w,
      was_best |-> wb, cp_other |-> o] :
        e0 \in {50, -300}, l \in LossSet, w \in BOOLEAN, wb \in BOOLEAN,
        o \in LossSet}

InitGrade ==
    /\ adaptive = [blunders |-> 0, good_moves |-> 0]
    /\ call = NoCall
    /\ result = NoResult
    /\ hist = <<>>
    /\ modes = <<>>
    /\ gin \in GradeInputs
    /\ gout = NoResult
    /\ games = NoGames

\* lines 792-793 on the inputs drawn, and _determine_grade on the other loss
Grade ==
    /\ gout = NoResult
    /\ LET cp_loss == _calculate_centipawn_loss(gin.eval_initial, gin.eval_final,
                                                gin.is_white)
       IN gout' = [cp_loss |-> cp_loss,
                   grade |-> _determine_grade(cp_loss, gin.was_best),
                   grade_other |-> _determine_grade(gin.cp_other, gin.was_best)]
    /\ UNCHANGED <<adaptive, call, result, hist, modes, gin, games>>

NextGrade == Grade

SpecGrade == InitGrade /\ [][NextGrade]_vars

(***************************************************************************)
(* SpecCounters: the adaptive counters alone (instructor.py 288-314), fed  *)
(* every grade assess_move can pass to _update_adaptive_state (line 846),  *)
(* far enough to reach every mode and come back from it.                   *)
(***************************************************************************)
InitCounters ==
    /\ adaptive = [blunders |-> 0, good_moves |-> 0]
    /\ call = NoCall
    /\ result = NoResult
    /\ hist = <<>>
    /\ modes = <<>>
    /\ gin = NoCall
    /\ gout = NoResult
    /\ games = NoGames

\* _update_adaptive_state(grade): gin records the grade and the counters it
\* was applied to
UpdateAdaptiveState ==
    /\ \E grade \in BLUNDER .. BEST :
          /\ grade \in {BLUNDER, MISTAKE} => adaptive.blunders < MaxCount
          /\ grade \in {GOOD, EXCELLENT, BEST} => adaptive.good_moves < MaxCount
          /\ gin' = [made |-> TRUE, grade |-> grade, before |-> adaptive]
          /\ adaptive' = _update_adaptive_state(adaptive, grade)
    /\ UNCHANGED <<call, result, hist, modes, gout, games>>

NextCounters == UpdateAdaptiveState \/ ResetAdaptiveState

SpecCounters == InitCounters /\ [][NextCounters]_vars

(***************************************************************************)
(* Properties of the grading core, checked under SpecGrade                 *)
(***************************************************************************)
\* C2: for a move that is not the recommended one, the grade never improves
\* as the centipawn loss grows, over negative losses, the band edges and
\* losses at and beyond the mate threshold: of two losses, the larger one
\* never gets the better grade.
C2_GradeMonotonic ==
    (gout # NoResult /\ ~gin.was_best) =>
        /\ gout.cp_loss <= gin.cp_other => gout.grade_other <= gout.grade
        /\ gin.cp_other <= gout.cp_loss => gout.grade <= gout.grade_other

\* a negative loss and a mate-level loss, graded EXCELLENT and BLUNDER
C2_Witness ==
    /\ gout # NoResult /\ ~gin.was_best
    /\ gout.cp_loss < 0 /\ gin.cp_other >= MATE_THRESHOLD
    /\ gout.grade = EXCELLENT /\ gout.grade_other = BLUNDER

\* C3: the loss is evalInitial - evalFinal for White and evalFinal -
\* evalInitial for Black; for a move that is not the recommended one the
\* loss is clamped at 0 and graded BLUNDER from 50000 on, EXCELLENT up to 10,
\* GOOD for 11..25, INACCURACY for 26..50, MISTAKE for 51..100 and BLUNDER
\* for 101..49999; White going from +50 to -120 loses 170 and is a BLUNDER.
C3_LossAndBands ==
    (gout # NoResult /\ ~gin.was_best) =>
        LET raw == IF gin.is_white THEN gin.eval_initial - gin.eval_final
                   ELSE gin.eval_final - gin.eval_initial
            loss == IF raw < 0 THEN 0 ELSE raw
        IN /\ gout.cp_loss = raw
           /\ loss >= 50000 => gout.grade = BLUNDER
           /\ loss <= 10 => gout.grade = EXCELLENT
           /\ loss \in 11..25 => gout.grade = GOOD
           /\ loss \in 26..50 => gout.grade = INACCURACY
           /\ loss \in 51..100 => gout.grade = MISTAKE
           /\ loss \in 101..49999 => gout.grade = BLUNDER
           /\ (gin.is_white /\ gin.eval_initial = 50 /\ gin.eval_final = -120)
                => (gout.cp_loss = 170 /\ gout.grade = BLUNDER)

\* Black going from -300 to +120: an evaluation rising for White is a loss
\* for Black, here 420 and a BLUNDER
C3_Witness ==
    /\ gout # NoResult /\ ~gin.was_best /\ ~gin.is_white
    /\ gin.eval_initial = -300 /\ gin.eval_final > gin.eval_initial
    /\ gout.cp_loss > 100 /\ gout.grade = BLUNDER

(***************************************************************************)
(* Properties of one assess_move call, checked under SpecAssess            *)
(***************************************************************************)
\* C1: when the move played equals the recommended move, the assessment
\* returned has grade BEST whatever the evaluations and the positions.
C1_RecommendedIsBest ==
    (result # NoResult /\ call.best_move # NoMove
        /\ call.move_played = call.best_move) => result.grade = BEST

\* the recommended move played with a mate-level loss, both positions
\* supplied and more than one legal move
C1_Witness ==
    /\ result # NoResult /\ call.best_move # NoMove
    /\ call.move_played = call.best_move
    /\ result.centipawn_loss >= MATE_THRESHOLD
    /\ call.board_before # NoBoard /\ call.board_after # NoBoard
    /\ Cardinality(legal_moves(call.board_before)) > 1
    /\ result.grade = BEST

\* C4 as stated: Black, evaluations -300 then -305, not the recommended
\* move: centipawn loss 5 and grade EXCELLENT.
C4_AsStated ==
    (result # NoResult /\ ~call.player_is_white /\ call.eval_initial = -300
        /\ call.eval_final = -305 /\ ~result.was_best_move)
    => (result.centipawn_loss = 5 /\ result.grade = EXCELLENT)

\* C4: Black, evaluations -300 then -305, not the recommended move: the
\* centipawn loss is -5 (evalFinal - evalInitial) and the grade is
\* EXCELLENT, or BEST where the constraint analysis of the position before
\* the move forces it.
C4_BlackGain ==
    (result # NoResult /\ ~call.player_is_white /\ call.eval_initial = -300
        /\ call.eval_final = -305 /\ ~result.was_best_move)
    => /\ result.centipawn_loss = -5
       /\ \/ result.grade = EXCELLENT
          \/ /\ result.grade = BEST
             /\ call.board_before # NoBoard
             /\ result.explanation \in
                    {"This was the only legal move.",
                     "This was the only move to avoid checkmate."}

\* that call, another move recommended, no forced move: loss -5, EXCELLENT
C4_Witness ==
    /\ result # NoResult /\ ~call.player_is_white
    /\ call.eval_initial = -300 /\ call.eval_final = -305
    /\ call.best_move # NoMove /\ ~result.was_best_move
    /\ result.centipawn_loss = -5 /\ result.grade = EXCELLENT

\* C5: when the position before the move is supplied and has exactly one
\* legal move, the explanation says it was the only legal move and the grade
\* is BEST, whatever the evaluations.
C5_OnlyLegalMove ==
    (result # NoResult /\ call.board_before # NoBoard
        /\ Cardinality(legal_moves(call.board_before)) = 1)
    => /\ result.explanation = "This was the only legal move."
       /\ result.grade = BEST

\* one legal move, not the recommended one, the mover already mated-level
\* down before it
C5_Witness ==
    /\ result # NoResult /\ call.board_before # NoBoard
    /\ Cardinality(legal_moves(call.board_before)) = 1
    /\ ~result.was_best_move
    /\ _to_player_eval(call.eval_initial, call.player_is_white) <= 0 - MATE_THRESHOLD
    /\ result.grade = BEST

\* C7: every call returns an assessment with a non-empty explanation; with no
\* recommended move the assessment is not marked as the recommended one; with
\* neither position supplied the explanation is the generic sentence of the
\* grade.
C7_AlwaysExplained ==
    result # NoResult =>
        /\ result.explanation \notin {None, ""}
        /\ call.best_move = NoMove => ~result.was_best_move
        /\ (call.board_before = NoBoard /\ call.board_after = NoBoard) =>
             result.explanation =
                CASE result.grade = BEST -> "This was the best move."
                  [] result.grade = EXCELLENT -> "Excellent move."
                  [] result.grade = GOOD -> "A solid move."
                  [] result.grade = INACCURACY -> "A small inaccuracy."
                  [] result.grade = MISTAKE -> "This move weakened your position."
                  [] result.grade = BLUNDER ->
                        "This move seriously weakened your position."

\* no recommended move and no position: a MISTAKE with its generic sentence
C7_Witness ==
    /\ result # NoResult /\ call.best_move = NoMove
    /\ call.board_before = NoBoard /\ call.board_after = NoBoard
    /\ result.grade = MISTAKE
    /\ result.explanation = "This move weakened your position."

\* C19: when the mover had more than one legal move and the evaluation
\* before the move, from the mover's side, was -50000 or less, the
\* explanation is that checkmate was unavoidable and the grade is the one
\* the loss gives, whatever the later constraint checks would say.
C19_MateUnavoidableFirst ==
    (/\ result # NoResult
     /\ call.board_before # NoBoard
     /\ Cardinality(legal_moves(call.board_before)) > 1
     /\ (IF call.player_is_white THEN call.eval_initial
         ELSE 0 - call.eval_initial) <= -50000)
    => /\ result.explanation = "Checkmate was unavoidable."
       /\ result.grade = _determine_grade(result.centipawn_loss,
                                          result.was_best_move)

\* checkmate was unavoidable although the move played was also the only
\* one of several that avoided an immediate mate
C19_Witness ==
    /\ result # NoResult
    /\ result.explanation = "Checkmate was unavoidable."
    /\ call.board_before # NoBoard
    /\ Cardinality(legal_moves(call.board_before)) > 1
    /\ _get_moves_avoiding_immediate_mate(call.board_before) = {call.move_played}

\* C20: the explanation that the position was already lost is given only
\* when the oracle has confirmed that the sampled alternatives lose as
\* well.  analyze_constraints of instructor.py never asks the oracle, so no
\* confirmation is ever available to it and the explanation is never given.
C20_LostOnlyWhenConfirmed ==
    result # NoResult => result.explanation # "The position was already lost."

\* C21: with more than one legal move and an evaluation above -800 before
\* the move: when the move played is the one legal move after which the
\* opponent has no mating reply, the explanation is that it was the only
\* move to avoid checkmate and the grade is BEST; when the opponent has a
\* mating reply after every legal move, the explanation is that no move
\* could prevent checkmate and the grade is the one the loss gives; when
\* one move avoids the mate and another was played, neither explanation is
\* given and the grade is the one the loss gives.
C21_OnlyMoveAvoidingMate ==
    (/\ result # NoResult
     /\ call.board_before # NoBoard
     /\ Cardinality(legal_moves(call.board_before)) > 1
     /\ (IF call.player_is_white THEN call.eval_initial
         ELSE 0 - call.eval_initial) > -800)
    => LET b == call.board_before
           avoiding == {mv \in DOMAIN b.next :
                           \A reply \in DOMAIN b.next[mv].next :
                               ~b.next[mv].next[reply].checkmate}
           raw == _determine_grade(result.centipawn_loss, result.was_best_move)
       IN /\ avoiding = {call.move_played} =>
               /\ result.explanation = "This was the only move to avoid checkmate."
               /\ result.grade = BEST
          /\ avoiding = {} =>
               /\ result.explanation = "No move could prevent checkmate."
               /\ result.grade = raw
          /\ (Cardinality(avoiding) = 1 /\ call.move_played \notin avoiding) =>
               /\ result.explanation
                    \notin {"This was the only move to avoid checkmate.",
                            "No move could prevent checkmate."}
               /\ result.grade = raw

\* the one move avoiding the mate was there and another was played, at a
\* loss that grades as a blunder
C21_Witness ==
    /\ result # NoResult
    /\ call.board_before # NoBoard
    /\ Cardinality(_get_moves_avoiding_immediate_mate(call.board_before)) = 1
    /\ call.move_played \notin _get_moves_avoiding_immediate_mate(call.board_before)
    /\ (IF call.player_is_white THEN call.eval_initial
        ELSE 0 - call.eval_initial) = 0
    /\ result.grade = BLUNDER

\* C23: an unaddressed threat is flagged, and a threat explanation given,
\* only when the oracle has found among up to 3 sampled alternatives one
\* that keeps the evaluation at -100 or better.  assess_move of
\* instructor.py is called without an oracle and analyze_constraints never
\* asks one, so no threat is flagged and no threat explanation is given.
C23_ThreatOnlyWhenSavingMove ==
    result # NoResult =>
        /\ ~ConstraintPhase(call)[3]
        /\ result.explanation \notin
             {"This move failed to address the threat.",
              "This move failed to stop a mate threat."}
             \cup {CanBeCaptured(t) : t \in {QUEEN, ROOK, BISHOP, KNIGHT}}

\* C25: an explanation of the threat classifier is given only when the
\* constraint analysis flagged an unaddressed threat; and when it did, on
\* the position after the move: if the opponent is to move and has a mating
\* reply the explanation is the mate threat, whatever can be captured;
\* otherwise it names the first type, of queen, rook, bishop, knight, of
\* which the mover has a piece attacked by the opponent and not defended.
C25_ThreatClassifierOrder ==
    result # NoResult =>
        LET mover == call.player_is_white
            b == call.board_after
            flagged == ConstraintPhase(call)[3]
            mate == /\ b.turn = ~mover
                    /\ \E reply \in DOMAIN b.next : b.next[reply].checkmate
            cap(t) == \E sq \in pieces(b, t, mover) :
                         /\ is_attacked_by(b, ~mover, sq)
                         /\ ~is_attacked_by(b, mover, sq)
            named(t) == result.explanation = CanBeCaptured(t)
        IN /\ (\/ result.explanation = "This move failed to stop a mate threat."
               \/ \E t \in {QUEEN, ROOK, BISHOP, KNIGHT} : named(t))
              => (flagged /\ b # NoBoard)
           /\ (flagged /\ b # NoBoard) =>
                /\ mate => result.explanation =
                              "This move failed to stop a mate threat."
                /\ (~mate /\ cap(QUEEN)) => named(QUEEN)
                /\ (~mate /\ ~cap(QUEEN) /\ cap(ROOK)) => named(ROOK)
                /\ (~mate /\ ~cap(QUEEN) /\ ~cap(ROOK) /\ cap(BISHOP))
                      => named(BISHOP)
                /\ (~mate /\ ~cap(QUEEN) /\ ~cap(ROOK) /\ ~cap(BISHOP)
                      /\ cap(KNIGHT)) => named(KNIGHT)

\* a flagged threat with a mating reply and with the queen and the rook both
\* capturable: the mate threat is the explanation
C25_Witness ==
    /\ result # NoResult
    /\ call.board_after # NoBoard
    /\ ConstraintPhase(call)[3]
    /\ \E reply \in DOMAIN call.board_after.next :
          call.board_after.next[reply].checkmate
    /\ \E sq \in pieces(call.board_after, QUEEN, call.player_is_white) :
          /\ is_attacked_by(call.board_after, ~call.player_is_white, sq)
          /\ ~is_attacked_by(call.board_after, call.player_is_white, sq)
    /\ \E sq \in pieces(call.board_after, ROOK, call.player_is_white) :
          /\ is_attacked_by(call.board_after, ~call.player_is_white, sq)
          /\ ~is_attacked_by(call.board_after, call.player_is_white, sq)
    /\ result.explanation = "This move failed to stop a mate threat."

C27_GoodGradesGetFallback ==
    (/\ result # NoResult
     /\ ConstraintPhase(call)[1] = None
     /\ result.grade \in {GOOD, EXCELLENT, BEST})
    => result.explanation =
          (CASE result.grade = BEST -> "This was the best move."
             [] result.grade = EXCELLENT -> "Excellent move."
             [] result.grade = GOOD -> "A solid move.")

\* C28: on a move graded INACCURACY or worse that the constraint analysis
\* neither explained nor flagged, the explanation is that of the first
\* detector that matches, in the order missed mate, allowed mate, new mate
\* threat, fork, pin, skewer, discovered attack, back-rank weakness, hanging
\* piece, overloaded defender.
C28_EarliestDetectorWins ==
    (/\ result # NoResult
     /\ call.board_before # NoBoard /\ call.board_after # NoBoard
     /\ ConstraintPhase(call)[1] = None /\ ~ConstraintPhase(call)[3]
     /\ result.grade \in {INACCURACY, MISTAKE, BLUNDER})
    => LET before == call.board_before
           after == call.board_after
           mover == call.player_is_white
           first == FirstResult(<<
               _detect_missed_mate(call.eval_initial, call.eval_final, mover),
               _detect_allowed_mate(call.eval_initial, call.eval_final, mover),
               _detect_new_mate_threat(after, mover),
               _detect_new_fork(before, after, mover),
               _detect_new_pin(before, after, mover, call.move_played),
               _detect_skewer(after, mover),
               _detect_discovered_attack(before, after, mover, call.move_played),
               _detect_back_rank_weakness(after, mover),
               _detect_new_hanging_piece(before, after, mover),
               _detect_overloaded_defender(before, after, mover,
                                           call.move_played)>>)
       IN first # None => result.explanation = first

(***************************************************************************)
(* Properties of the adaptive counters, checked under Spec                 *)
(***************************************************************************)
\* C8: each assessment moves the counters by its grade: BLUNDER or MISTAKE
\* adds an error and clears the streak; GOOD, EXCELLENT or BEST adds one to
\* the streak and, once the streak is 3 or more, takes one error away (never
\* below 0) without clearing the streak; INACCURACY changes nothing.  Three
\* BEST moves after two errors leave exactly one error.
C8_CounterSteps ==
    /\ [][Len(hist') = Len(hist) + 1 =>
            LET g == result'.grade
                b == adaptive.blunders
                s == adaptive.good_moves
            IN /\ g \in {BLUNDER, MISTAKE} =>
                    adaptive' = [blunders |-> b + 1, good_moves |-> 0]
               /\ g \in {GOOD, EXCELLENT, BEST} =>
                    /\ adaptive'.good_moves = s + 1
                    /\ adaptive'.blunders =
                          IF s + 1 >= 3 THEN (IF b >= 1 THEN b - 1 ELSE 0) ELSE b
               /\ g = INACCURACY => adaptive' = adaptive]_vars
    /\ []((/\ Len(hist) = 5
           /\ hist[1] \in {BLUNDER, MISTAKE} /\ hist[2] \in {BLUNDER, MISTAKE}
           /\ \A i \in 3..5 : hist[i] = BEST)
          => adaptive = [blunders |-> 1, good_moves |-> 3])

\* two errors and three BEST moves since the reset
C8_Witness ==
    /\ hist = <<BLUNDER, MISTAKE, BEST, BEST, BEST>>
    /\ adaptive = [blunders |-> 1, good_moves |-> 3]

\* C17: each assess_move call updates the counters once, with the grade of
\* the MoveAssessment it returns: the only legal move, whatever its loss,
\* is returned as BEST and counted as a good move, never as an error.
C17_UpdatedOnceWithFinalGrade ==
    [][Len(hist') = Len(hist) + 1 =>
        /\ hist' = Append(hist, result'.grade)
        /\ adaptive' = _update_adaptive_state(adaptive, result'.grade)
        /\ (/\ call'.board_before # NoBoard
            /\ Cardinality(legal_moves(call'.board_before)) = 1) =>
                /\ result'.grade = BEST
                /\ adaptive'.good_moves = adaptive.good_moves + 1
                /\ adaptive'.blunders <= adaptive.blunders]_vars

\* after a blunder, an only legal move that loses 300 centipawns is counted
\* as a good move
C17_Witness ==
    /\ hist = <<BLUNDER, BEST>>
    /\ call.board_before # NoBoard
    /\ result.centipawn_loss = 300
    /\ adaptive = [blunders |-> 1, good_moves |-> 1]

\* C9: the mode is a function of the error counter alone: learning from 5
\* errors on, easy for 3 or 4, medium for 1 or 2, hard for 0; the streak
\* never changes it.
C9_ModeByErrors ==
    LET m == get_current_mode(adaptive)
        b == adaptive.blunders
    IN /\ m = "learning" <=> b >= 5
       /\ m = "easy" <=> b \in 3..4
       /\ m = "medium" <=> b \in 1..2
       /\ m = "hard" <=> b = 0
       /\ modes # <<>> => modes[Len(modes)] = m

\* one error left and a streak of three: the mode is medium all the same
C9_Witness ==
    /\ adaptive.blunders = 1 /\ adaptive.good_moves >= 3
    /\ modes # <<>> /\ modes[Len(modes)] = "medium"

\* C10 as stated: three BLUNDERs from a reset show medium, easy, easy.
C10_AsStated ==
    (Len(hist) >= 3 /\ SubSeq(hist, 1, 3) = <<BLUNDER, BLUNDER, BLUNDER>>)
    => SubSeq(modes, 1, 3) = <<"medium", "easy", "easy">>

\* C10: three BLUNDERs from a reset show medium, medium, easy: the easy mode
\* starts at the third error.
C10_ThreeBlunders ==
    (Len(hist) >= 3 /\ SubSeq(hist, 1, 3) = <<BLUNDER, BLUNDER, BLUNDER>>)
    => SubSeq(modes, 1, 3) = <<"medium", "medium", "easy">>

\* the three BLUNDERs assessed, three errors counted
C10_Witness ==
    /\ hist = <<BLUNDER, BLUNDER, BLUNDER>>
    /\ adaptive.blunders = 3
    /\ modes = <<"medium", "medium", "easy">>

\* C29 as stated: after errors only and then an uninterrupted run of 3 or
\* more GOOD, EXCELLENT or BEST grades, the run has taken exactly one error
\* away (never below 0), however long it is.
C29_AsStated ==
    \A e \in 0 .. Len(hist) :
        (/\ Len(hist) - e >= 3
         /\ \A i \in 1 .. e : hist[i] \in {BLUNDER, MISTAKE}
         /\ \A i \in (e + 1) .. Len(hist) : hist[i] \in {GOOD, EXCELLENT, BEST})
        => adaptive.blunders = Max(0, e - 1)

\* C29: after e errors and then an uninterrupted run of n GOOD, EXCELLENT
\* or BEST grades, the streak is n and every move of the run from the third
\* on has taken one error away (never below 0): a run of n >= 3 leaves
\* max(0, e - (n - 2)) errors.
C29_RunForgivesEachMove ==
    \A e \in 0 .. Len(hist) :
        (/\ \A i \in 1 .. e : hist[i] \in {BLUNDER, MISTAKE}
         /\ \A i \in (e + 1) .. Len(hist) : hist[i] \in {GOOD, EXCELLENT, BEST})
        => /\ adaptive.good_moves = Len(hist) - e
           /\ adaptive.blunders =
                 IF Len(hist) - e >= 3
                 THEN Max(0, e - (Len(hist) - e - 2)) ELSE e

\* two errors and then a run of four good moves: both errors are forgiven
C29_Witness ==
    /\ hist = <<BLUNDER, MISTAKE, GOOD, EXCELLENT, BEST, GOOD>>
    /\ adaptive = [blunders |-> 0, good_moves |-> 4]

(***************************************************************************)
(* Properties of the games of one process, checked under SpecGames         *)
(***************************************************************************)
\* C11: whenever a new game begins, the GUI's New Game included, both
\* counters are zero and the mode is hard before the first move of that game
\* is assessed: while no game has had a move assessed, nothing of an earlier
\* game is left in the adaptive state.
C11_NewGameStartsFresh ==
    (\A g \in Games : games.moves[g] = 0) =>
        /\ adaptive = [blunders |-> 0, good_moves |-> 0]
        /\ get_current_mode(adaptive) = "hard"

\* C12: each game owns its adaptive state: the counters and the mode a game
\* sees after one of its moves was assessed are those of a state fed with
\* the grades of that game alone, however the moves of the games interleave.
C12_GamesIndependent ==
    games.last # 0 =>
        /\ adaptive = games.own[games.last]
        /\ get_current_mode(adaptive) = get_current_mode(games.own[games.last])

(***************************************************************************)
(* Properties of the oracle lookahead, checked under SpecOracle            *)
(***************************************************************************)
\* C13: within one call the constraint analysis asks the position oracle for
\* at most 6 evaluations, whatever the number of legal moves, the
\* evaluations and the checks that run.
C13_OracleCap ==
    gout # NoResult => gout.evaluations <= 6

\* C22: when no earlier constraint matched, the position before the move had
\* between 2 and 6 legal moves and the oracle evaluates every alternative as
\* falling more than 200 centipawns below the played move's result, the
\* explanation is the only-move explanation and the grade returned is GOOD;
\* with more than 6 legal moves the only-move explanation is not given.
C22_OnlyReasonableForcesGood ==
    (/\ gout # NoResult /\ gin.engine
     /\ Len(gin.legal) > 1
     /\ _to_player_eval(gin.eval_initial, gin.is_white) > -800
     /\ gin.safe # {gin.move_played})
    => /\ (/\ Len(gin.legal) <= 6
           /\ \A i \in 1 .. Len(gin.legal) :
                 gin.legal[i] # gin.move_played =>
                    /\ gin.oracle[gin.legal[i]] # OracleError
                    /\ _to_player_eval(gin.oracle[gin.legal[i]].cp_score_white,
                                       gin.is_white)
                         < _to_player_eval(gin.eval_final, gin.is_white) - 200)
          => (gout.explanation = "This was the only move." /\ gout.grade = GOOD)
       /\ Len(gin.legal) > 6 => gout.explanation # "This was the only move."

\* C24: an oracle call that raises during the lookahead proves nothing: the
\* position is called already lost only when each of the first 3 legal moves
\* was evaluated, without error, at -800 or less; the move is called the
\* only move by the viability check only when every alternative was
\* evaluated, without error, more than 200 below the played move's result;
\* the threat is called unaddressed only when one of the first 3
\* alternatives was evaluated, without error, at -100 or better; and the
\* call returns its grade and explanation whatever the oracle raised.
C24_OracleErrorsProveNothing ==
    gout # NoResult =>
        LET n == Len(gin.legal)
            Answered(i) == gin.oracle[gin.legal[i]] # OracleError
            Eval(i) == _to_player_eval(gin.oracle[gin.legal[i]].cp_score_white,
                                       gin.is_white)
            others == {i \in 1 .. n : gin.legal[i] # gin.move_played}
            sampled == {i \in others :
                          Cardinality({j \in others : j < i}) < 3}
        IN /\ gout.grade \in BLUNDER .. BEST
           /\ gout.explanation \in
                {None, "The position was already lost.",
                 "This was the only move.", "This move failed to stop the threat."}
           /\ gout.explanation = "The position was already lost." =>
                 \A i \in 1 .. n : i <= 3 => (Answered(i) /\ Eval(i) <= -800)
           /\ (/\ gout.explanation = "This was the only move."
               /\ n > 1 /\ gin.safe # {gin.move_played}) =>
                 \A i \in others :
                    /\ Answered(i)
                    /\ Eval(i) < _to_player_eval(gin.eval_final, gin.is_white) - 200
           /\ gout.explanation = "This move failed to stop the threat." =>
                 \E i \in sampled : Answered(i) /\ Eval(i) >= -100

\* every oracle call of a lookahead over 2 to 6 legal moves raised, from a
\* position evaluated at -800 or less, and the call returned no constraint
C24_Witness ==
    /\ gout # NoResult
    /\ gin.engine
    /\ Len(gin.legal) \in 2 .. 6
    /\ _to_player_eval(gin.eval_initial, gin.is_white) <= -800
    /\ \A i \in 1 .. Len(gin.legal) : gin.oracle[gin.legal[i]] = OracleError
    /\ gout.evaluations > 0
    /\ gout.explanation = None
    /\ gout.grade \in BLUNDER .. BEST


(***************************************************************************)
(* Properties of the explanation of one assess_move call, checked under    *)
(* SpecAssess                                                              *)
(***************************************************************************)
\* C14: when the mover's queen is attacked and undefended after the move,
\* was not attacked before it, and neither the constraint analysis nor the
\* mate detectors explain the move, the explanation names the queen.
C14_QueenLeftHangingNamed ==
    (/\ result # NoResult
     /\ call.board_before # NoBoard /\ call.board_after # NoBoard
     /\ \E sq \in pieces(call.board_after, QUEEN, call.player_is_white) :
           /\ is_attacked_by(call.board_after, ~call.player_is_white, sq)
           /\ ~is_attacked_by(call.board_after, call.player_is_white, sq)
           \* the square the queen stood on before the move
           /\ ~is_attacked_by(call.board_before, ~call.player_is_white,
                              IF sq = call.move_played.to_square
                              THEN call.move_played.from_square ELSE sq)
     /\ ConstraintPhase(call)[1] = None
     /\ _detect_missed_mate(call.eval_initial, call.eval_final,
                            call.player_is_white) = None
     /\ _detect_allowed_mate(call.eval_initial, call.eval_final,
                             call.player_is_white) = None)
    => result.explanation = LeftUndefended(QUEEN)


\* C15: a fork is reported only when, after the move, one opponent piece
\* attacks two mover pieces worth at least 300 each, each undefended or
\* worth more than the attacker, and that piece did not already attack both
\* of them in that way before the move.
C15_ForkOnlyWhenNew ==
    (result # NoResult /\ result.explanation = "This move allowed a fork.") =>
        LET mover == call.player_is_white
            Gain(b, from, to) ==
                /\ piece_at(b, from) # NoPiece
                /\ piece_at(b, from).color = ~mover
                /\ to \in attacks(b, from)
                /\ piece_at(b, to) # NoPiece
                /\ piece_at(b, to).color = mover
                /\ PIECE_VALUES(piece_at(b, to).type) >= 300
                /\ \/ ~is_attacked_by(b, mover, to)
                   \/ PIECE_VALUES(piece_at(b, to).type)
                        > PIECE_VALUES(piece_at(b, from).type)
        IN \E sq \in SQUARES : \E t1, t2 \in SQUARES :
              /\ t1 # t2
              /\ Gain(call.board_after, sq, t1)
              /\ Gain(call.board_after, sq, t2)
              /\ ~(Gain(call.board_before, sq, t1) /\ Gain(call.board_before, sq, t2))

\* a fork by a knight on two pieces is reported
C15_Witness ==
    /\ result # NoResult
    /\ result.explanation = "This move allowed a fork."
    /\ \E sq \in pieces(call.board_after, KNIGHT, ~call.player_is_white) :
          _count_fork_targets(call.board_after, sq, call.player_is_white) = 2


(***************************************************************************)
(* Properties of the pre-move advice, checked under SpecAdvise             *)
(***************************************************************************)
\* C16: in hard and medium mode a hint is given exactly when the opponent
\* threatens mate, and it is the mode's mate hint; piece and king hints are
\* given only in easy and learning mode, the few-options hint only in
\* learning mode; the hint is the first that applies of mate threat, piece
\* threat, king safety, few options; "adaptive" stands for the mode the
\* counters give.
C16_HintsByMode ==
    gout # NoResult =>
        LET b == gin.board
            h == gout.hint
            m == IF gin.mode = "adaptive" THEN get_current_mode(adaptive)
                 ELSE gin.mode
            MateHints == {"There is a forced threat.", "This position is dangerous.",
                          "A checkmate threat exists.", "Opponent threatens checkmate."}
            PieceHints == {"A major piece may be in danger.", "A piece may be in danger.",
                           "Your Queen is under threat.", "Your Rook is under threat.",
                           "Your Bishop is under threat.", "Your Knight is under threat."}
            KingHints == {"Your King position may be unsafe.",
                          "Your King may be vulnerable."}
            FewHints == {"You have very few options."}
            mate == /\ b.turn = gin.color
                    /\ ~is_attacked_by(b, ~gin.color, king(b, gin.color))
                    /\ \E mv \in DOMAIN b.null.next : b.null.next[mv].checkmate
            piece == _get_threatened_piece_type(b, gin.color) # None
            king_unsafe == _king_safety_critical(b, gin.color)
            few == Cardinality(legal_moves(b)) <= 2
        IN /\ m \in {"hard", "medium"} =>
                /\ (h # None) <=> mate
                /\ h \in MateHints \cup {None}
           /\ h \in PieceHints \cup KingHints => m \in {"easy", "learning"}
           /\ h \in FewHints => m = "learning"
           /\ m \in {"easy", "learning"} =>
                /\ mate => h \in MateHints
                /\ (~mate /\ piece) => h \in PieceHints
                /\ (~mate /\ ~piece /\ king_unsafe) => h \in KingHints
                /\ (~mate /\ ~piece /\ ~king_unsafe) =>
                      h = IF few /\ m = "learning"
                          THEN "You have very few options." ELSE None

\* the counters have reached learning mode and the adaptive advice is that
\* the player has very few options
C16_Witness ==
    /\ gout # NoResult
    /\ gin.mode = "adaptive"
    /\ adaptive.blunders >= 5
    /\ gout.hint = "You have very few options."


(***************************************************************************)
(* Properties of the caller's boards, checked under SpecBoards             *)
(***************************************************************************)
\* C18: when assess_move or analyze_pre_move_threats returns, the boards the
\* caller handed in hold the position they held on entry and no move is
\* left on their stacks, also when a lookahead loop returned early; the
\* values returned are those computed on the positions handed in.
C18_BoardsRestored ==
    gout # NoResult =>
        IF gout.function = "assess_move"
        THEN /\ gout.returned.board_before.stack = <<>>
             /\ gout.returned.board_after.stack = <<>>
             /\ Current(gout.returned.board_before) = gin.args.board_before
             /\ Current(gout.returned.board_after) = gin.args.board_after
             /\ gout.returned.explanation = MoveAssessment(gin.args).explanation
             /\ gout.returned.grade = MoveAssessment(gin.args).grade
        ELSE /\ gout.returned.board.stack = <<>>
             /\ Current(gout.returned.board) = gin.args.board
             /\ gin.args.mode # "unknown" =>
                    gout.returned.mate_threat
                      = _has_mate_threat(gin.args.board, gin.args.color)
             /\ gout.returned.hint
                  = analyze_pre_move_threats(adaptive, gin.args.board,
                                             gin.args.color, gin.args.mode)

\* the mate lookahead on the board after the move returned from inside its
\* loop, and the safe-move lookahead walked the board before the move
C18_Witness ==
    /\ gout # NoResult
    /\ gout.function = "assess_move"
    /\ gout.returned.explanation = "This move failed to stop a mate threat."
    /\ Cardinality(legal_moves(gin.args.board_before)) > 1
    /\ gout.returned.board_after = Mutable(gin.args.board_after)


(***************************************************************************)
(* Properties of the difficulty mode, checked under SpecCounters           *)
(***************************************************************************)
\* C30: one assessed grade changes the error counter by at most 1 and leaves
\* the mode where it was or moves it to the next level up or down in the
\* order hard, medium, easy, learning; the mode goes from easy or learning
\* straight to hard only in a step that assesses no grade, the reset.
C30_ModeMovesOneLevel ==
    [][LET Level(a) == CASE get_current_mode(a) = "hard" -> 0
                         [] get_current_mode(a) = "medium" -> 1
                         [] get_current_mode(a) = "easy" -> 2
                         [] get_current_mode(a) = "learning" -> 3
       IN /\ gin' # gin =>
               /\ adaptive'.blunders - adaptive.blunders \in {-1, 0, 1}
               /\ Level(adaptive') - Level(adaptive) \in {-1, 0, 1}
          /\ (Level(adaptive) >= 2 /\ Level(adaptive') = 0) =>
               (gin' = gin /\ adaptive' = reset_adaptive_state(adaptive))]_vars

\* a good move on a streak has just brought the mode from learning to easy
C30_Witness ==
    /\ gin # NoCall
    /\ gin.grade \in {GOOD, EXCELLENT, BEST}
    /\ get_current_mode(gin.before) = "learning"
    /\ get_current_mode(adaptive) = "easy"
    /\ adaptive.blunders = gin.before.blunders - 1
====
